---- MODULE Spec2Model ----
(***************************************************************************)
(* A model of skfda's neighbor estimators (skfda/ml/_neighbors_base.py):   *)
(* the fitted-state life cycle of NeighborsBase and its mixins, the        *)
(* neighbor queries, and the functional-response regression and scoring.   *)
(*                                                                         *)
(* Functional observations are abstracted to integer points on a line and  *)
(* the metric to d(a, b) = |a - b| (so d(x, x) = 0).  Arrays handed over   *)
(* by the caller are references: a stored array is either a private copy   *)
(* (cell "own") or the caller's own object (cell "callerX"/"callerY"),     *)
(* which the caller may later change in place.                             *)
(*                                                                         *)
(* Every record lists its fields in the order in which the field names     *)
(* first occur in this module, the order TLC keeps records in, so that a   *)
(* record is never reordered while two workers read it.                    *)
(***************************************************************************)
EXTENDS Integers, Sequences, FiniteSets, TLC

VARIABLES self, call, result

vars == <<self, call, result>>

\* Bounds of the model.
MaxN == 2        \* samples in a training or query set
MaxPoint == 2    \* observations are the points 0..MaxPoint
MaxY == 1        \* scalar targets are 0..MaxY

Points == 0..MaxPoint
Targets == 0..MaxY

Abs(a) == IF a < 0 THEN -a ELSE a

SeqsOf(S, lo, hi) == UNION {[1..n -> S] : n \in lo..hi}

PointSeqs == SeqsOf(Points, 1, MaxN)

\* ------------------------------------------------------------------ arrays

\* PairwiseMetric(metric)(X, Y): the matrix of distances between two sets.
PairwiseMetric(P, Q) ==
    [i \in 1..Len(P) |-> [j \in 1..Len(Q) |-> Abs(P[i] - Q[j])]]

\* np.zeros(shape=(n, n))
Zeros(n) == [i \in 1..n |-> [j \in 1..n |-> 0]]

\* A target array: FData (functional) or a plain array (multivariate).
\* vals holds one value vector per sample: the single output of a multivariate
\* target, or the values of a function on the grid.  dims is <<dim_domain,
\* dim_codomain>> of a functional target.
Scalar(a) == <<a>>
Const(a) == <<a, a, a>>
ArrayOf(vals) == [vals |-> vals, functional |-> FALSE, dims |-> <<1, 1>>]
FDataOf(vals) == [vals |-> vals, functional |-> TRUE, dims |-> <<1, 1>>]

\* References.
NoRef == [cell |-> "unset", val |-> <<>>]
Own(v) == [cell |-> "own", val |-> v]
CallerX(v) == [cell |-> "callerX", val |-> v]
CallerY(v) == [cell |-> "callerY", val |-> v]

\* A plain assignment where the copy should be: the caller's own array.
shallow_ref(r) == r

\* copy.deepcopy: a private array with the same content.
deepcopy(r) == Own(r.val)

NoArray == ArrayOf(<<>>)
NoY == [cell |-> "unset", val |-> NoArray]

\* A call's optional query set: X=None or an array.
NoneArg == [val |-> <<>>, none |-> TRUE]
Given(v) == [val |-> v, none |-> FALSE]

\* What a call returns when it raises.
Raise(s, e) == [self |-> s, val |-> <<>>, err |-> e, asked |-> "no", src |-> "none"]

\* ------------------------------------------- the underlying neighbor index
\* sklearn.neighbors estimators with metric="precomputed", by their contract:
\* fit(distance_matrix, y) and queries over precomputed distances.

UnfittedIndex == [src |-> "none", fitted |-> FALSE, kind |-> "none", X |-> NoRef, y |-> NoY]

IsSquare(D) == Len(D) >= 1 /\ \A i \in 1..Len(D) : Len(D[i]) = Len(D)

\* estimator.fit(D, y): validates before it stores; keeps the arrays it is
\* handed (validation does not copy a conforming array), except that a
\* classifier stores its own encoding of the labels.  src records where the
\* matrix came from: the zero placeholder, real distances, or the caller.
IndexFit(est, D, y, src) ==
    IF IsSquare(D.val) /\ Len(y.val.vals) = Len(D.val)
    THEN [err |-> "ok",
          est |-> [est EXCEPT !.fitted = TRUE,
                              !.X = D,
                              !.y = IF est.kind = "classifier" THEN Own(y.val) ELSE y,
                              !.src = src]]
    ELSE [err |-> "ValueError", est |-> est]

Range(f) == {f[i] : i \in DOMAIN f}

\* The k nearest columns of one row of distances, nearest first; ties may be
\* broken either way.  excl: the columns left out (the sample itself in a
\* self query).
KnnRow(row, k, excl) ==
    LET cand == (1..Len(row)) \ excl
    IN {s \in [1..k -> cand] :
          /\ \A a, b \in 1..k : a < b => s[a] # s[b] /\ row[s[a]] <= row[s[b]]
          /\ \A j \in cand \ Range(s) : row[j] >= row[s[k]]}

\* The columns of one row within the radius, in index order.
RECURSIVE Within(_, _, _, _)
Within(row, radius, excl, j) ==
    IF j > Len(row) THEN <<>>
    ELSE IF j \notin excl /\ row[j] <= radius
         THEN <<j>> \o Within(row, radius, excl, j + 1)
         ELSE Within(row, radius, excl, j + 1)

\* All ways to pick one element of S[i] for every i.
Choices(S) ==
    {f \in [DOMAIN S -> UNION Range(S)] : \A i \in DOMAIN S : f[i] \in S[i]}

DistOf(D, ind) == [i \in DOMAIN ind |-> [a \in DOMAIN ind[i] |-> D[i][ind[i][a]]]]

\* The distance rows a query reads and the columns it leaves out per row:
\* the fitted matrix without the diagonal for X=None, else the given matrix.
QueryMatrix(est, X_dist) == IF X_dist.none THEN est.X.val ELSE X_dist.val
Excluded(X_dist, i) == IF X_dist.none THEN {i} ELSE {}

\* A query's matrix must have one column per indexed sample.
ShapeOk(est, X_dist) ==
    X_dist.none \/ \A i \in 1..Len(X_dist.val) : Len(X_dist.val[i]) = Len(est.X.val)

\* estimator.kneighbors(X_dist, k, return_distance=True): the set of results
\* it may return, each (distances, indices); {} stands for raising.
IndexKneighbors(est, X_dist, k) ==
    LET D == QueryMatrix(est, X_dist)
        avail == Len(est.X.val) - (IF X_dist.none THEN 1 ELSE 0)
    IN IF ~ShapeOk(est, X_dist) \/ k > avail THEN {}
       ELSE {[ind |-> ind, dist |-> DistOf(D, ind)] :
                ind \in Choices([i \in 1..Len(D) |-> KnnRow(D[i], k, Excluded(X_dist, i))])}

\* estimator.radius_neighbors(X_dist, radius, return_distance=True)
IndexRadiusNeighbors(est, X_dist, radius) ==
    LET D == QueryMatrix(est, X_dist)
        ind == [i \in 1..Len(D) |-> Within(D[i], radius, Excluded(X_dist, i), 1)]
    IN IF ~ShapeOk(est, X_dist) THEN {}
       ELSE {[ind |-> ind, dist |-> DistOf(D, ind)]}

\* Adjacency matrix of a neighbor result over n_fit indexed samples:
\* ones (mode "connectivity") or the distances (mode "distance").
GraphOf(res, n_fit, mode) ==
    [i \in DOMAIN res.ind |->
        [j \in 1..n_fit |->
            IF \E a \in DOMAIN res.ind[i] : res.ind[i][a] = j
            THEN IF mode = "connectivity" THEN 1
                 ELSE res.dist[i][CHOOSE a \in DOMAIN res.ind[i] : res.ind[i][a] = j]
            ELSE 0]]

\* estimator.kneighbors_graph(X_dist, k, mode)
IndexKneighborsGraph(est, X_dist, k, mode) ==
    {GraphOf(res, Len(est.X.val), mode) : res \in IndexKneighbors(est, X_dist, k)}

\* estimator.radius_neighbors_graph(X_dist, radius, mode)
IndexRadiusNeighborsGraph(est, X_dist, radius, mode) ==
    {GraphOf(res, Len(est.X.val), mode) : res \in IndexRadiusNeighbors(est, X_dist, radius)}

\* ---------------------------------------------------------------- numbers
\* Exact fractions <<n, d>> in lowest terms with d >= 0.  Division by zero
\* gives what floating point gives: <<1, 0>> and <<-1, 0>> are +inf and
\* -inf, <<0, 0>> is nan.

RECURSIVE GCD(_, _)
GCD(a, b) == IF b = 0 THEN a ELSE GCD(b, a % b)

Sign(a) == IF a > 0 THEN 1 ELSE IF a < 0 THEN -1 ELSE 0

Rat(n, d) ==
    IF d = 0 THEN <<Sign(n), 0>>
    ELSE LET g == GCD(Abs(n), Abs(d))
         IN <<(Sign(d) * n) \div g, Abs(d) \div g>>

RInt(a) == <<a, 1>>
RAdd(x, y) ==
    IF x[2] = 0 \/ y[2] = 0
    THEN (IF x[2] = 0 /\ y[2] = 0 THEN (IF x[1] = y[1] THEN x ELSE <<0, 0>>)
          ELSE IF x[2] = 0 THEN x ELSE y)
    ELSE Rat(x[1] * y[2] + y[1] * x[2], x[2] * y[2])
RNeg(x) == <<-x[1], x[2]>>
RSub(x, y) == RAdd(x, RNeg(y))
RMul(x, y) == Rat(x[1] * y[1], x[2] * y[2])
RDiv(x, y) ==
    IF y[2] = 0 THEN (IF y[1] = 0 \/ x[2] = 0 THEN <<0, 0>> ELSE <<0, 1>>)
    ELSE IF x[2] = 0 THEN (IF y[1] = 0 THEN x ELSE <<x[1] * Sign(y[1]), 0>>)
    ELSE Rat(x[1] * y[2], x[2] * y[1])

RECURSIVE RSum(_)
RSum(xs) == IF xs = <<>> THEN RInt(0) ELSE RAdd(xs[1], RSum(Tail(xs)))

\* Samples (fixed-length value vectors) with fraction entries.
VInt(v) == [t \in DOMAIN v |-> RInt(v[t])]
VAdd(u, v) == [t \in DOMAIN u |-> RAdd(u[t], v[t])]
VSub(u, v) == [t \in DOMAIN u |-> RSub(u[t], v[t])]
VScale(c, v) == [t \in DOMAIN v |-> RMul(c, v[t])]

\* np.sum(X, axis=0) over samples of width w
RECURSIVE VSum(_, _)
VSum(vs, w) ==
    IF vs = <<>> THEN [t \in 1..w |-> RInt(0)] ELSE VAdd(vs[1], VSum(Tail(vs), w))

\* np.mean(X, axis=0)
VMean(vs, w) == VScale(RDiv(RInt(1), RInt(Len(vs))), VSum(vs, w))

\* y[idx]: the samples of y at the given indices, in that order.
Take(y, idx) == [a \in DOMAIN idx |-> y[idx[a]]]

\* ---------------------------------------------------- the index's predict
\* The sklearn estimators' predict over the constructor's n_neighbors
\* nearest columns (uniform weights), by their contract.

Width(vals) == IF vals = <<>> THEN 0 ELSE Len(vals[1])

\* Regressor: the mean target of the neighbors of each query row.
IndexPredict(est, X_dist, k) ==
    {[i \in DOMAIN res.ind |->
        VMean(Take([j \in DOMAIN est.y.val.vals |-> VInt(est.y.val.vals[j])], res.ind[i]),
              Width(est.y.val.vals))] :
        res \in IndexKneighbors(est, X_dist, k)}

Count(labels, c) == Cardinality({a \in DOMAIN labels : labels[a] = c})

\* Classifier: per query row the vote share of every class, classes in order.
Proba(est, ind) ==
    LET labels == [j \in DOMAIN est.y.val.vals |-> est.y.val.vals[j][1]]
    IN [c \in Range(labels) |-> Rat(Count(Take(labels, ind), c), Len(ind))]

IndexPredictProba(est, X_dist, k) ==
    {[i \in DOMAIN res.ind |-> Proba(est, res.ind[i])] :
        res \in IndexKneighbors(est, X_dist, k)}

\* Classifier: the most voted class, the smallest one among equals.
Mode(labels) ==
    CHOOSE c \in Range(labels) :
        \A e \in Range(labels) :
            \/ Count(labels, c) > Count(labels, e)
            \/ Count(labels, c) = Count(labels, e) /\ c <= e

IndexPredictClass(est, X_dist, k) ==
    {[i \in DOMAIN res.ind |->
        Mode(Take([j \in DOMAIN est.y.val.vals |-> est.y.val.vals[j][1]], res.ind[i]))] :
        res \in IndexKneighbors(est, X_dist, k)}

\* ------------------------------------------------------------ NeighborsBase

\* The instance right after __init__: constructor parameters and no fitted
\* attribute.  kind: which mixins the class has.
NewModel(metric, kind, search, n_neighbors, radius, weights, outlier) ==
    [functional |-> "unset", kind |-> kind, radius |-> radius,
     metric |-> metric, search |-> search, n_neighbors |-> n_neighbors,
     weights |-> weights,
     outlier_response |-> outlier, has_estimator |-> FALSE,
     estimator |-> UnfittedIndex,
     fitted_with_distances |-> "unset", fit_X |-> NoRef, fit_y |-> NoY]

\* _init_estimator: a new, unfitted index of the class's kind.
init_estimator(s) == [UnfittedIndex EXCEPT !.kind = s.kind]

\* A _fit that clears the flag where line 117 sets it, before the metric is
\* looked at.
fit_impl_cleared_first(s, X, y, fit_with_zeros, metric_raises) ==
    LET s1 == [s EXCEPT !.has_estimator = TRUE,
                        !.estimator = init_estimator(s),
                        !.fitted_with_distances = IF fit_with_zeros THEN "False" ELSE "True"]
    IN IF s.metric = "precomputed"
       THEN LET s2 == IF y.val.functional
                      THEN [s1 EXCEPT !.fit_y = deepcopy(y)] ELSE s1
                r == IndexFit(s2.estimator, X, y, "caller")
            IN [self |-> [s2 EXCEPT !.estimator = r.est], err |-> r.err]
       ELSE IF metric_raises THEN [self |-> s1, err |-> "MetricError"]
       ELSE LET s2 == [s1 EXCEPT !.fit_X = deepcopy(X), !.fit_y = deepcopy(y)]
                r == IndexFit(s2.estimator,
                              Own(IF fit_with_zeros THEN Zeros(Len(X.val))
                                  ELSE PairwiseMetric(X.val, X.val)),
                              y, IF fit_with_zeros THEN "zeros" ELSE "distances")
            IN [self |-> [s2 EXCEPT !.estimator = r.est], err |-> r.err]

\* _fit(X, y, fit_with_zeros): the statements in order, so that a raise
\* keeps what the earlier statements wrote.  metric_raises: whether the
\* metric's own fit (run by _fit_metric) rejects X.
fit_impl(s, X, y, fit_with_zeros, metric_raises) ==
    LET s1 == [s EXCEPT !.has_estimator = TRUE,
                        !.estimator = init_estimator(s),
                        !.fitted_with_distances = "True"]
    IN IF s.metric = "precomputed"
       THEN LET s2 == IF y.val.functional
                      THEN [s1 EXCEPT !.fit_y = deepcopy(y)] ELSE s1
                r == IndexFit(s2.estimator, X, y, "caller")
            IN [self |-> [s2 EXCEPT !.estimator = r.est], err |-> r.err]
       ELSE IF metric_raises THEN [self |-> s1, err |-> "MetricError"]
       ELSE LET s2 == [s1 EXCEPT !.fit_X = deepcopy(X), !.fit_y = deepcopy(y)]
            IN IF fit_with_zeros
               THEN LET s3 == [s2 EXCEPT !.fitted_with_distances = "False"]
                        r == IndexFit(s3.estimator, Own(Zeros(Len(X.val))), y, "zeros")
                    IN [self |-> [s3 EXCEPT !.estimator = r.est], err |-> r.err]
               ELSE LET r == IndexFit(s2.estimator,
                                      Own(PairwiseMetric(X.val, X.val)), y, "distances")
                    IN [self |-> [s2 EXCEPT !.estimator = r.est], err |-> r.err]

\* A refit that leaves the placeholder in place.
refit_skipped(s) == [self |-> s, err |-> "ok"]

\* _refit_with_distances
refit_with_distances(s) ==
    IF s.fitted_with_distances = "unset" THEN [self |-> s, err |-> "AttributeError"]
    ELSE IF s.fitted_with_distances = "True" THEN [self |-> s, err |-> "ok"]
    ELSE IF s.metric = "precomputed" THEN [self |-> s, err |-> "AssertionError"]
    ELSE IF s.fit_X.cell = "unset" THEN [self |-> s, err |-> "AttributeError"]
    ELSE LET distances == Own(PairwiseMetric(s.fit_X.val, s.fit_X.val))
             r == IndexFit(s.estimator, distances, s.fit_y, "distances")
         IN IF r.err # "ok" THEN [self |-> s, err |-> r.err]
            ELSE [self |-> [s EXCEPT !.estimator = r.est,
                                     !.fitted_with_distances = "True"],
                  err |-> "ok"]

\* Distances that are the placeholder's zeros, not the metric's values.
X_to_placeholder(s, X) ==
    [val |-> Given([i \in 1..Len(X) |-> [j \in 1..Len(s.fit_X.val) |-> 0]]),
     err |-> "ok"]

\* _X_to_distances
X_to_distances(s, X) ==
    IF s.metric = "precomputed" THEN [val |-> Given(X), err |-> "ok"]
    ELSE IF s.fit_X.cell = "unset" THEN [val |-> NoneArg, err |-> "AttributeError"]
    ELSE [val |-> Given(PairwiseMetric(X, s.fit_X.val)), err |-> "ok"]

\* self._estimator.<method>(X_dist, ...): method is <<name, n_neighbors or
\* radius, mode>>, the answer the set of returns the index may produce.
IndexCall(est, X_dist, method) ==
    CASE method[1] = "kneighbors" -> IndexKneighbors(est, X_dist, method[2])
      [] method[1] = "radius_neighbors" -> IndexRadiusNeighbors(est, X_dist, method[2])
      [] method[1] = "kneighbors_graph" ->
             IndexKneighborsGraph(est, X_dist, method[2], method[3])
      [] method[1] = "radius_neighbors_graph" ->
             IndexRadiusNeighborsGraph(est, X_dist, method[2], method[3])
      [] method[1] = "predict" -> IndexPredict(est, X_dist, method[2])
      [] method[1] = "predict_class" -> IndexPredictClass(est, X_dist, method[2])
      [] method[1] = "predict_proba" -> IndexPredictProba(est, X_dist, method[2])

\* One call of the index: the returns it may produce.  asked/src record that
\* the index was queried, with or without a query set, and what it was fitted
\* on at that moment.
AskIndex(s, X_dist, method) ==
    LET log == [asked |-> IF X_dist.none THEN "self" ELSE "explicit",
                src |-> s.estimator.src]
    IN IF ~s.estimator.fitted
       THEN {[self |-> s, val |-> <<>>, err |-> "NotFittedError",
              asked |-> log.asked, src |-> log.src]}
       ELSE LET R == IndexCall(s.estimator, X_dist, method)
            IN IF R = {}
               THEN {[self |-> s, val |-> <<>>, err |-> "ValueError",
                      asked |-> log.asked, src |-> log.src]}
               ELSE {[self |-> s, val |-> v, err |-> "ok",
                      asked |-> log.asked, src |-> log.src] : v \in R}

\* The body shared word for word by kneighbors, kneighbors_graph,
\* radius_neighbors and radius_neighbors_graph.
NeighborsQuery(s, X, method) ==
    IF ~s.has_estimator THEN {Raise(s, "NotFittedError")}
    ELSE LET r == IF X.none THEN refit_with_distances(s) ELSE [self |-> s, err |-> "ok"]
         IN IF r.err # "ok" THEN {Raise(r.self, r.err)}
            ELSE LET d == IF X.none THEN [val |-> NoneArg, err |-> "ok"]
                          ELSE X_to_distances(r.self, X.val)
                 IN IF d.err # "ok" THEN {Raise(r.self, d.err)}
                    ELSE AskIndex(r.self, d.val, method)

\* KNeighborsMixin.kneighbors(X, n_neighbors)
kneighbors(s, X, k) ==
    NeighborsQuery(s, X, <<"kneighbors", k, "none">>)

\* RadiusNeighborsMixin.radius_neighbors(X, radius)
radius_neighbors(s, X, radius) ==
    NeighborsQuery(s, X, <<"radius_neighbors", radius, "none">>)

\* KNeighborsMixin.kneighbors_graph(X, n_neighbors, mode)
kneighbors_graph(s, X, k, mode) ==
    NeighborsQuery(s, X, <<"kneighbors_graph", k, mode>>)

\* RadiusNeighborsMixin.radius_neighbors_graph(X, radius, mode)
radius_neighbors_graph(s, X, radius, mode) ==
    NeighborsQuery(s, X, <<"radius_neighbors_graph", radius, mode>>)

\* ------------------------------------------------- NeighborsClassifierMixin

\* The body shared by predict, predict_proba and _multivariate_predict.
PredictQuery(s, X, method) ==
    LET d == X_to_distances(s, X)
    IN IF d.err # "ok" THEN {Raise(s, d.err)}
       ELSE AskIndex(s, d.val, method)

\* NeighborsClassifierMixin.predict(X)
classifier_predict(s, X) ==
    IF ~s.has_estimator THEN {Raise(s, "NotFittedError")}
    ELSE PredictQuery(s, X, <<"predict_class", s.n_neighbors, "none">>)

\* NeighborsClassifierMixin.predict_proba(X)
predict_proba(s, X) ==
    IF ~s.has_estimator THEN {Raise(s, "NotFittedError")}
    ELSE PredictQuery(s, X, <<"predict_proba", s.n_neighbors, "none">>)

\* -------------------------------------------------- NeighborsRegressorMixin

\* Weights in which only the zero distances were replaced.
distance_weights_kept(distance) ==
    LET idx == [a \in DOMAIN distance |-> distance[a] = 0]
    IN IF \E a \in DOMAIN distance : idx[a]
       THEN [a \in DOMAIN distance |-> IF idx[a] THEN RInt(1) ELSE RInt(distance[a])]
       ELSE [a \in DOMAIN distance |-> RDiv(RInt(1), RInt(distance[a]))]

\* _distance_weights(distance)
distance_weights(distance) ==
    LET idx == [a \in DOMAIN distance |-> distance[a] = 0]
    IN IF \E a \in DOMAIN distance : idx[a]
       THEN [a \in DOMAIN distance |-> IF idx[a] THEN RInt(1) ELSE RInt(0)]
       ELSE [a \in DOMAIN distance |-> RDiv(RInt(1), RInt(distance[a]))]

\* _average(X, weights); NoWeights is weights=None.
NoWeights == <<>>
average(X, weights, w) ==
    IF weights = NoWeights THEN VMean(X, w)
    ELSE LET total == RSum(weights)
             normed == [a \in DOMAIN weights |-> RDiv(weights[a], total)]
         IN VSum([a \in DOMAIN X |-> VScale(normed[a], X[a])], w)

\* _prediction_from_neighbors(neighbors, distance)
prediction_from_neighbors(s, neighbors, distance, w) ==
    LET weights == IF s.weights = "uniform" THEN NoWeights
                   ELSE distance_weights(distance)
    IN average(neighbors, weights, w)

\* NeighborsRegressorMixin.fit(X, y)
regressor_fit(s, X, y, metric_raises) ==
    fit_impl([s EXCEPT !.functional = IF y.val.functional THEN "True" ELSE "False"],
             X, y, TRUE, metric_raises)

\* NeighborsBase.fit(X, y)
base_fit(s, X, y, metric_raises) == fit_impl(s, X, y, TRUE, metric_raises)

\* _query(X) of the concrete regressors: the k-neighbors or the radius
\* search of X with the constructor's parameters.
query(s, X) ==
    IF s.search = "radius" THEN radius_neighbors(s, Given(X), s.radius)
    ELSE kneighbors(s, Given(X), s.n_neighbors)

\* Only the first query without neighbors.
FirstEmptyRow(neighbors) ==
    LET E == {i \in DOMAIN neighbors : Len(neighbors[i]) = 0}
    IN {i \in E : \A j \in E : i <= j}

\* _outlier_response(neighbors): the configured response, or the error that
\* names the positions of the queries without neighbors.
EmptyRows(neighbors) == {i \in DOMAIN neighbors : Len(neighbors[i]) = 0}

outlier_response(s, neighbors) ==
    IF s.outlier_response.none
    THEN [val |-> <<>>, err |-> "ValueError: No neighbors found", index |-> EmptyRows(neighbors)]
    ELSE [val |-> VInt(s.outlier_response.val), err |-> "ok", index |-> {}]

\* One query's response inside _functional_predict: idx is its neighbor set,
\* distance its distances; the whole neighbors list goes to _outlier_response.
Response(s, neighbors, idx, distance) ==
    IF Len(idx) = 0 THEN outlier_response(s, neighbors)
    ELSE [val |-> prediction_from_neighbors(
                      s,
                      Take([j \in DOMAIN s.fit_y.val.vals |-> VInt(s.fit_y.val.vals[j])], idx),
                      distance,
                      Width(s.fit_y.val.vals)), err |-> "ok",
          index |-> {}]

\* The loop with new_pred.concatenate(pred) for pred.concatenate(new_pred).
RECURSIVE PredictLoopPrepended(_, _, _, _, _)
PredictLoopPrepended(s, neighbors, distances, i, pred) ==
    LET rest == Tail(neighbors)
    IN IF i >= Len(rest) THEN [val |-> pred, err |-> "ok", index |-> {}]
       ELSE LET new_pred == Response(s, neighbors, rest[i + 1], distances[i + 2])
            IN IF new_pred.err # "ok" THEN new_pred
               ELSE PredictLoopPrepended(s, neighbors, distances, i + 1,
                                         <<new_pred.val>> \o pred)

\* for i, idx in enumerate(neighbors[1:]): i counts from 0, idx is
\* neighbors[1:][i] and its distances are distances[i + 1] (0-based), that
\* is rest[i + 1] and distances[i + 2] here; a raise ends the loop.
RECURSIVE PredictLoop(_, _, _, _, _)
PredictLoop(s, neighbors, distances, i, pred) ==
    LET rest == Tail(neighbors)
    IN IF i >= Len(rest) THEN [val |-> pred, err |-> "ok", index |-> {}]
       ELSE LET new_pred == Response(s, neighbors, rest[i + 1], distances[i + 2])
            IN IF new_pred.err # "ok" THEN new_pred
               ELSE PredictLoop(s, neighbors, distances, i + 1,
                                Append(pred, new_pred.val))

\* _functional_predict(X): pred starts as the first query's response and
\* the others are concatenated to it.
FunctionalResponses(s, neighbors, distances) ==
    LET pred == Response(s, neighbors, neighbors[1], distances[1])
    IN IF pred.err # "ok" THEN pred
       ELSE PredictLoop(s, neighbors, distances, 0, <<pred.val>>)

functional_predict(s, X) ==
    {IF q.err # "ok" THEN q
     ELSE LET r == FunctionalResponses(s, q.val.ind, q.val.dist)
          IN IF r.err # "ok"
             THEN [self |-> q.self, val |-> r.index, err |-> r.err,
                   asked |-> q.asked, src |-> q.src]
             ELSE [q EXCEPT !.val = r.val] :
     q \in query(s, X)}

\* _multivariate_predict(X)
multivariate_predict(s, X) ==
    PredictQuery(s, X, <<"predict", s.n_neighbors, "none">>)

\* NeighborsRegressorMixin.predict(X)
regressor_predict(s, X) ==
    IF ~s.has_estimator THEN {Raise(s, "NotFittedError")}
    ELSE IF s.functional = "unset" THEN {Raise(s, "AttributeError")}
    ELSE IF s.functional = "True" THEN functional_predict(s, X)
    ELSE multivariate_predict(s, X)

\* ----------------------------------------------------------------- score

\* The grid every functional target is sampled on.
Grid == <<0, 1, 2>>

\* scipy.integrate.simps(f, x=grid): composite Simpson rule, one parabola
\* per pair of intervals (an odd number of grid points).
RECURSIVE SimpsFrom(_, _, _)
SimpsFrom(f, x, i) ==
    IF i + 2 > Len(f) THEN RInt(0)
    ELSE LET h0 == x[i + 1] - x[i]
             h1 == x[i + 2] - x[i + 1]
             panel ==
                 RMul(Rat(h0 + h1, 6),
                      RAdd(RMul(Rat(2 * h0 - h1, h0), f[i]),
                           RAdd(RMul(Rat((h0 + h1) * (h0 + h1), h0 * h1), f[i + 1]),
                                RMul(Rat(2 * h1 - h0, h1), f[i + 2]))))
         IN RAdd(panel, SimpsFrom(f, x, i + 2))

simps(f, x) == SimpsFrom(f, x, 1)

\* np.square
Square(v) == [t \in DOMAIN v |-> RMul(v[t], v[t])]

\* sample_weight=None
NoSampleWeight == <<>>

\* The ratio of the integrals alone.
ScoreRatio(u, v, sample_weight, w, x) ==
    LET sq(r) == VSum([i \in DOMAIN r |-> Square(r[i])], w)
    IN RDiv(simps(sq(u), x), simps(sq(v), x))

\* 1 - int_u / int_v from the residuals u = y - pred and v = y - mean(y),
\* after squaring, weighting the samples and summing over them.
ScoreOf(u, v, sample_weight, w, x) ==
    LET data_u == [i \in DOMAIN u |-> Square(u[i])]
        data_v == [i \in DOMAIN v |-> Square(v[i])]
        total == RSum([i \in DOMAIN sample_weight |-> RInt(sample_weight[i])])
        sw(i) == IF sample_weight = NoSampleWeight THEN RInt(1)
                 ELSE RDiv(RInt(sample_weight[i]), total)
        sum_u == VSum([i \in DOMAIN u |-> VScale(sw(i), data_u[i])], w)
        sum_v == VSum([i \in DOMAIN v |-> VScale(sw(i), data_v[i])], w)
        int_u == simps(sum_u, x)
        int_v == simps(sum_v, x)
    IN RSub(RInt(1), RDiv(int_u, int_v))

\* sklearn's r2_score for one output: 1 - SS_res / SS_tot, the mean of y
\* weighted like the residuals.  With fewer than two samples it is nan;
\* with SS_tot = 0 it is kept finite, 1 for a perfect prediction and 0
\* otherwise.
R2Of(pred, yv, sample_weight) ==
    LET sw(i) == IF sample_weight = NoSampleWeight THEN RInt(1)
                 ELSE RInt(sample_weight[i])
        total == RSum([i \in DOMAIN yv |-> sw(i)])
        mean == RDiv(RSum([i \in DOMAIN yv |-> RMul(sw(i), yv[i][1])]), total)
        res(i) == RSub(yv[i][1], pred[i][1])
        dev(i) == RSub(yv[i][1], mean)
        ss_res == RSum([i \in DOMAIN yv |-> RMul(sw(i), RMul(res(i), res(i)))])
        ss_tot == RSum([i \in DOMAIN yv |-> RMul(sw(i), RMul(dev(i), dev(i)))])
    IN IF Len(yv) < 2 THEN RDiv(RInt(0), RInt(0))
       ELSE IF ss_tot # RInt(0) THEN RSub(RInt(1), RDiv(ss_res, ss_tot))
       ELSE IF ss_res = RInt(0) THEN RInt(1) ELSE RInt(0)

\* A score that leaves out the weights it cannot match to the samples.
functional_score_unchecked(pred, y, sample_weight) ==
    LET yv == [i \in DOMAIN y.vals |-> VInt(y.vals[i])]
        mean == VMean(yv, Len(Grid))
        u == [i \in DOMAIN yv |-> VSub(yv[i], pred[i])]
        v == [i \in DOMAIN yv |-> VSub(yv[i], mean)]
        weight == IF Len(sample_weight) = Len(y.vals) THEN sample_weight ELSE NoSampleWeight
    IN [val |-> ScoreOf(u, v, weight, Len(Grid), Grid), err |-> "ok"]

\* The part of _functional_score after pred = self.predict(X).
functional_score_of(pred, y, sample_weight) ==
    LET yv == [i \in DOMAIN y.vals |-> VInt(y.vals[i])]
        mean == VMean(yv, Len(Grid))
        u == [i \in DOMAIN yv |-> VSub(yv[i], pred[i])]
        v == [i \in DOMAIN yv |-> VSub(yv[i], mean)]
    IN IF sample_weight # NoSampleWeight /\ Len(sample_weight) # Len(y.vals)
       THEN [val |-> <<>>, err |-> "ValueError"]
       ELSE [val |-> ScoreOf(u, v, sample_weight, Len(Grid), Grid), err |-> "ok"]

\* _functional_score(X, y, sample_weight)
functional_score(s, X, y, sample_weight) ==
    IF y.dims # <<1, 1>> THEN {Raise(s, "ValueError")}
    ELSE {IF p.err # "ok" THEN p
          ELSE LET r == functional_score_of(p.val, y, sample_weight)
               IN [p EXCEPT !.err = r.err, !.val = r.val] :
          p \in regressor_predict(s, X)}

\* RegressorMixin.score(X, y, sample_weight): r2_score(y, self.predict(X)).
multivariate_score(s, X, y, sample_weight) ==
    {IF p.err # "ok" THEN p
     ELSE IF sample_weight # NoSampleWeight /\ Len(sample_weight) # Len(y.vals)
          THEN [p EXCEPT !.err = "ValueError", !.val = <<>>]
          ELSE [p EXCEPT !.val =
                    R2Of(p.val, [i \in DOMAIN y.vals |-> VInt(y.vals[i])], sample_weight)] :
     p \in regressor_predict(s, X)}

\* NeighborsRegressorMixin.score(X, y, sample_weight)
score(s, X, y, sample_weight) ==
    IF s.functional = "unset" THEN {Raise(s, "AttributeError")}
    ELSE IF s.functional = "True" THEN functional_score(s, X, y, sample_weight)
    ELSE multivariate_score(s, X, y, sample_weight)

\* ------------------------------------------------------------------ calls

NoCall == [X |-> NoneArg, y |-> NoArray, sample_weight |-> NoSampleWeight, op |-> "none"]
NoResult == [val |-> <<>>, err |-> "ok", asked |-> "no", src |-> "none"]

\* A call ends in one of its outcomes: the instance as the call left it and
\* what the call returned or raised.
Returns(op, X, y, outcomes) ==
    \E r \in outcomes :
        /\ self' = r.self
        /\ call' = [NoCall EXCEPT !.op = op, !.X = X, !.y = y]
        /\ result' = [val |-> r.val, err |-> r.err, asked |-> r.asked, src |-> r.src]

FitOutcome(r) ==
    {[self |-> r.self, val |-> <<>>, err |-> r.err, asked |-> "no", src |-> "none"]}

\* fit(X, y) with the caller's own arrays, <<X, y>> \in XYS.  MR: whether
\* the metric's own fit may reject X; a precomputed metric has none.
Fit(XYS, MR) ==
    \E Xy \in XYS :
        \E metric_raises \in IF self.metric = "precomputed" THEN {FALSE} ELSE MR :
            Returns("fit", Given(Xy[1]), Xy[2],
                    FitOutcome(IF self.kind = "regressor"
                               THEN regressor_fit(self, CallerX(Xy[1]), CallerY(Xy[2]),
                                                  metric_raises)
                               ELSE base_fit(self, CallerX(Xy[1]), CallerY(Xy[2]),
                                             metric_raises)))

\* The queries, with n_neighbors, radius and mode left at their defaults
\* (the constructor's n_neighbors and radius, mode "connectivity").
Kneighbors(XS) ==
    \E X \in XS : Returns("kneighbors", X, NoArray, kneighbors(self, X, self.n_neighbors))

KneighborsGraph(XS) ==
    \E X \in XS :
        Returns("kneighbors_graph", X, NoArray,
                kneighbors_graph(self, X, self.n_neighbors, "connectivity"))

RadiusNeighbors(XS) ==
    \E X \in XS :
        Returns("radius_neighbors", X, NoArray, radius_neighbors(self, X, self.radius))

RadiusNeighborsGraph(XS) ==
    \E X \in XS :
        Returns("radius_neighbors_graph", X, NoArray,
                radius_neighbors_graph(self, X, self.radius, "connectivity"))

ClassifierPredict(XS) ==
    /\ self.kind = "classifier"
    /\ \E X \in XS : Returns("predict", X, NoArray, classifier_predict(self, X.val))

PredictProba(XS) ==
    /\ self.kind = "classifier"
    /\ \E X \in XS : Returns("predict_proba", X, NoArray, predict_proba(self, X.val))

RegressorPredict(XS) ==
    /\ self.kind = "regressor"
    /\ \E X \in XS : Returns("predict", X, NoArray, regressor_predict(self, X.val))

\* score(X, y, sample_weight) with one true response per test sample.
Score(XS, YS, WS) ==
    /\ self.kind = "regressor"
    /\ \E X \in XS, y \in YS, sample_weight \in WS :
           /\ Len(y.vals) = Len(X.val)
           /\ \E r \in score(self, X.val, y, sample_weight) :
                  /\ self' = r.self
                  /\ call' = [X |-> X, y |-> y, sample_weight |-> sample_weight,
                              op |-> "score"]
                  /\ result' = [val |-> r.val, err |-> r.err,
                                asked |-> r.asked, src |-> r.src]

\* arr[...] = c: the caller overwrites, in place, every entry of an array it
\* passed to fit; every reference to that array sees the new content.
Fill(arr, c) == [i \in DOMAIN arr |-> [j \in DOMAIN arr[i] |-> c]]

CallerMutatesX(CS) ==
    /\ self.estimator.X.cell = "callerX"
    /\ \E c \in CS :
           /\ Fill(self.estimator.X.val, c) # self.estimator.X.val
           /\ self' = [self EXCEPT !.estimator.X.val = Fill(@, c)]
           /\ call' = [NoCall EXCEPT !.op = "caller mutates X"]
           /\ result' = NoResult

CallerMutatesY(CS) ==
    /\ self.estimator.y.cell = "callerY"
    /\ \E c \in CS :
           /\ Fill(self.estimator.y.val.vals, c) # self.estimator.y.val.vals
           /\ self' = [self EXCEPT !.estimator.y.val.vals = Fill(@, c)]
           /\ call' = [NoCall EXCEPT !.op = "caller mutates y"]
           /\ result' = NoResult

\* ------------------------------------------------------- the life cycle
\* Spec: every operation on one estimator, from construction on.

IsSorted(p) == \A i \in 1..(Len(p) - 1) : p[i] <= p[i + 1]

\* Training sets of the two extreme observations, up to the order of the
\* samples.
TrainSets == {p \in SeqsOf({0, MaxPoint}, 1, MaxN) : IsSorted(p)}

\* Single query samples.
QuerySets == {<<a>> : a \in {0, MaxPoint}}

\* Distance matrices: of a training set, or of one with a column missing.
TrainMatrices ==
    {PairwiseMetric(p, p) : p \in TrainSets}
        \cup {PairwiseMetric(p, SubSeq(p, 1, Len(p) - 1)) : p \in {q \in TrainSets : Len(q) > 1}}

QueryMatrices == {PairwiseMetric(q, p) : q \in QuerySets, p \in TrainSets}

\* Targets: the samples count 0, 1, ... (mod the number of targets).
Ramp(n) == [i \in 1..n |-> (i - 1) % (MaxY + 1)]
Ramps(n) == ArrayOf([i \in 1..n |-> Scalar(Ramp(n)[i])])
RampArrays == {Ramps(n) : n \in 1..MaxN}
RampFData == {FDataOf([i \in 1..n |-> Const(Ramp(n)[i])]) : n \in 1..MaxN}

TrainX == IF self.metric = "precomputed" THEN TrainMatrices ELSE TrainSets
TrainY == IF self.kind = "regressor" THEN RampArrays \cup RampFData ELSE RampArrays
QueryX == {Given(X) : X \in IF self.metric = "precomputed" THEN QueryMatrices ELSE QuerySets}
TestY == IF self.functional = "True" THEN RampFData ELSE RampArrays

\* Any estimator, never fitted: metric and mixins chosen at construction.
Init ==
    /\ \E metric \in {"callable", "precomputed"}, kind \in {"classifier", "regressor"} :
           self = NewModel(metric, kind, "k", 1, 0, "uniform", NoneArg)
    /\ call = NoCall
    /\ result = NoResult

Next ==
    \/ Fit(TrainX \X TrainY, BOOLEAN)
    \/ Kneighbors({NoneArg} \cup QueryX)
    \/ KneighborsGraph({NoneArg} \cup QueryX)
    \/ RadiusNeighbors({NoneArg} \cup QueryX)
    \/ RadiusNeighborsGraph({NoneArg} \cup QueryX)
    \/ ClassifierPredict(QueryX)
    \/ PredictProba(QueryX)
    \/ RegressorPredict(QueryX)
    \/ Score(QueryX, TestY, {NoSampleWeight})
    \/ CallerMutatesX({0, MaxPoint})
    \/ CallerMutatesY({0, MaxY})

Spec == Init /\ [][Next]_vars

\* ------------------------------------------------- the k-neighbors search
\* SpecKnn: a k-neighbors estimator with a callable metric, fitted on any
\* training set and asked for the neighbors of its training set, of single
\* observations, or of no query set.

KnnTrainSets == {p \in PointSeqs : IsSorted(p)}

KnnQueries ==
    {NoneArg} \cup {Given(<<a>>) : a \in Points}
        \cup (IF self.fit_X.cell = "own" THEN {Given(self.fit_X.val)} ELSE {})

InitKnn ==
    /\ \E k \in 1..MaxN :
           self = NewModel("callable", "classifier", "k", k, 0, "uniform", NoneArg)
    /\ call = NoCall
    /\ result = NoResult

NextKnn ==
    \/ Fit(KnnTrainSets \X RampArrays, BOOLEAN)
    \/ Kneighbors(KnnQueries)

SpecKnn == InitKnn /\ [][NextKnn]_vars

\* ------------------------------------------ functional-response prediction
\* SpecPredict: a regressor with a callable metric and functional targets,
\* with every search, weighting and outlier response, fitted and asked to
\* predict.

MaxQuery == 3    \* samples in a query set of predict

\* Functional targets that differ from sample to sample and along the grid.
Wave(i) == <<(i - 1) % (MaxY + 1), i % (MaxY + 1), (i - 1) % (MaxY + 1)>>
Waves(n) == FDataOf([i \in 1..n |-> Wave(i)])
WaveFData == {Waves(n) : n \in 1..MaxN}

\* Single observations and, for the radius search, longer query sets of
\* the two extreme ones.
PredictQueries ==
    {Given(<<a>>) : a \in Points}
        \cup (IF self.search = "radius"
              THEN {Given(q) : q \in SeqsOf({0, MaxPoint}, 2, MaxQuery)} ELSE {})

InitPredict ==
    /\ \E weights \in {"uniform", "distance"} :
           \/ \E k \in 1..MaxN :
                  self = NewModel("callable", "regressor", "k", k, 0, weights, NoneArg)
           \/ \E radius \in {0, 1, MaxPoint}, outlier \in {NoneArg, Given(Const(0))} :
                  self = NewModel("callable", "regressor", "radius", 1, radius, weights, outlier)
    /\ call = NoCall
    /\ result = NoResult

NextPredict ==
    \/ Fit({<<X, Waves(Len(X))>> : X \in KnnTrainSets}, {FALSE})
    \/ RegressorPredict(PredictQueries)

SpecPredict == InitPredict /\ [][NextPredict]_vars

\* ------------------------------------------------------------------ scoring
\* SpecScore: a k-neighbors regressor, fitted on
\* distinct observations with functional or multivariate targets and scored
\* on its training set or on single observations, with and without sample
\* weights.

ScoreTrainSets == {p \in PointSeqs : \A i \in 1..(Len(p) - 1) : p[i] < p[i + 1]}

ScoreQueries ==
    {Given(<<a>>) : a \in Points}
        \cup (IF self.fit_X.cell = "own" THEN {Given(self.fit_X.val)} ELSE {})

\* True responses: after a fit on functional targets, functional data with
\* one or two dimensions of domain and codomain (dims is <<dim_domain,
\* dim_codomain>>).
ScoreTargets ==
    IF self.functional = "True"
    THEN {[y EXCEPT !.dims = d] : y \in WaveFData, d \in {<<1, 1>>, <<1, 2>>, <<2, 1>>}}
    ELSE RampArrays

SampleWeights == {NoSampleWeight} \cup {[i \in 1..n |-> i] : n \in 1..MaxN}

InitScore ==
    /\ \E k \in 1..MaxN, weights \in {"uniform", "distance"} :
           self = NewModel("callable", "regressor", "k", k, 0, weights, NoneArg)
    /\ call = NoCall
    /\ result = NoResult

NextScore ==
    \/ Fit({<<X, Waves(Len(X))>> : X \in ScoreTrainSets}
               \cup {<<X, Ramps(Len(X))>> : X \in ScoreTrainSets}, {FALSE})
    \/ Score(ScoreQueries, ScoreTargets, SampleWeights)

SpecScore == InitScore /\ [][NextScore]_vars

\* ---------------------------------------------------------- numpy arrays
\* The arrays of skfda/datasets/_samples_generators.py: a shape and the
\* elements (exact fractions) in row-major order.  Positions and indices
\* count from 0, as in numpy.

MaxDim == 2      \* every axis of an array has 1..MaxDim elements

NDArray(shape, data) == [shape |-> shape, data |-> data]

\* np.array(a) of a number a
Array0(a) == NDArray(<<>>, <<RInt(a)>>)

RECURSIVE Size(_)
Size(shape) == IF shape = <<>> THEN 1 ELSE shape[1] * Size(Tail(shape))

\* np.full(shape, x)
Full(shape, x) == NDArray(shape, [k \in 1..Size(shape) |-> x])

\* np.eye(n, m)
Eye(n, m) ==
    NDArray(<<n, m>>,
            [k \in 1..(n * m) |-> IF (k - 1) \div m = (k - 1) % m THEN RInt(1) ELSE RInt(0)])

\* np.atleast_1d
atleast_1d(A) == IF A.shape = <<>> THEN NDArray(<<1>>, A.data) ELSE A

\* The index of position k in an array of the given shape.
RECURSIVE Unravel(_, _)
Unravel(shape, k) ==
    IF shape = <<>> THEN <<>>
    ELSE LET rest == Size(Tail(shape))
         IN <<k \div rest>> \o Unravel(Tail(shape), k % rest)

\* The position of an index, an axis of one element being stretched
\* (broadcast) over any index.
RECURSIVE Ravel(_, _)
Ravel(shape, idx) ==
    IF shape = <<>> THEN 0
    ELSE (IF shape[1] = 1 THEN 0 ELSE idx[1]) * Size(Tail(shape))
         + Ravel(Tail(shape), Tail(idx))

\* Broadcasting: shapes are aligned at their last axis, a missing axis counts
\* as 1, and two axes are compatible when equal or when one of them is 1.
Pad(shape, n) == [i \in 1..(n - Len(shape)) |-> 1] \o shape

Broadcastable(a, b) ==
    LET n == IF Len(a) > Len(b) THEN Len(a) ELSE Len(b)
    IN \A i \in 1..n : \/ Pad(a, n)[i] = Pad(b, n)[i]
                       \/ Pad(a, n)[i] = 1
                       \/ Pad(b, n)[i] = 1

BroadcastShape(a, b) ==
    LET n == IF Len(a) > Len(b) THEN Len(a) ELSE Len(b)
    IN [i \in 1..n |-> IF Pad(a, n)[i] = 1 THEN Pad(b, n)[i] ELSE Pad(a, n)[i]]

\* The element of A that broadcasting puts at the index idx of a larger shape.
At(A, idx) ==
    A.data[1 + Ravel(A.shape, SubSeq(idx, Len(idx) - Len(A.shape) + 1, Len(idx)))]

\* A * B and A + B, elementwise with broadcasting (of broadcastable shapes).
Elementwise(op, A, B) ==
    LET shape == BroadcastShape(A.shape, B.shape)
    IN NDArray(shape,
               [k \in 1..Size(shape) |->
                   LET idx == Unravel(shape, k - 1)
                   IN IF op = "*" THEN RMul(At(A, idx), At(B, idx))
                      ELSE RAdd(At(A, idx), At(B, idx))])

\* A[:, n] of a three-axis array
Slice(A, n) ==
    NDArray(<<A.shape[1], A.shape[3]>>,
            [k \in 1..(A.shape[1] * A.shape[3]) |->
                A.data[1 + Ravel(A.shape, <<(k - 1) \div A.shape[3], n, (k - 1) % A.shape[3]>>)]])

\* A[:, n] = B, B being broadcast to the slice
SetSlice(A, n, B) ==
    NDArray(A.shape,
            [k \in 1..Size(A.shape) |->
                LET idx == Unravel(A.shape, k - 1)
                IN IF idx[2] = n THEN At(B, <<idx[1], idx[3]>>) ELSE A.data[k]])

\* np.sqrt of a fraction whose root is a fraction; nan below zero.
Sqrt(x) ==
    IF x[2] = 0 THEN (IF x[1] = 1 THEN x ELSE <<0, 0>>)
    ELSE IF x[1] < 0 THEN <<0, 0>>
    ELSE <<CHOOSE r \in 0..x[1] : r * r = x[1], CHOOSE r \in 0..x[2] : r * r = x[2]>>

\* ------------------------------------------------------------ random state
\* A numpy RandomState handle: the seed it was made with and how many numbers
\* it has handed out.  The stream is a function of the seed alone, and every
\* draw through a handle moves the handle on.

MaxSeed == 1     \* the random states are those of the seeds 0..MaxSeed

RandomState(seed) == [seed |-> seed, pos |-> 0]

\* the number a stream holds at a position
StreamAt(seed, i) == RInt((((seed + 1) * (i + 1) + seed) % 3) - 1)

\* random_state.standard_normal(size=shape): the next numbers of the stream
standard_normal(random_state, shape) ==
    NDArray(shape, [k \in 1..Size(shape) |-> StreamAt(random_state.seed, random_state.pos + k - 1)])

Advance(random_state, count) == [random_state EXCEPT !.pos = @ + count]

\* ---------------------------------------------------------- euler_maruyama
\* euler_maruyama, one action per stage of its body.  self is the frame of
\* the running call (its local variables), call the arguments, result what
\* the call returned or raised.  drift and diffusion are constant functions:
\* an argument Given(A) returns the array A at every (t, x); a diffusion
\* with diffusion_later Given(B) returns A at t = start and B at any other t.

MaxGrid == 3     \* n_grid_points is 1..MaxGrid

Unset == NDArray(<<0>>, <<>>)

Frame(random_state) ==
    [n |-> 0, random_state |-> random_state, pc |-> "start",
     initial_values |-> Unset, n_samples |-> 0, dim_codomain |-> 0,
     dim_noise |-> 0, formatting_matrix |-> Unset, data_matrix |-> Unset,
     times |-> <<>>, step_size |-> RInt(0), noise |-> Unset]

Running == [val |-> <<>>, err |-> "running"]

\* raise: the call ends with the error and the frame is left as it was
Raised(e) ==
    /\ self' = [self EXCEPT !.pc = "done"]
    /\ result' = [val |-> <<>>, err |-> e]

\* A generator called without n_samples is asked for one sample.
initial_values_one_sample(initial_condition, n_samples, random_state) ==
    LET shape == <<IF n_samples.none THEN 1 ELSE n_samples.val>>
                 \o initial_condition.array.shape
    IN IF initial_condition.callable
       THEN [val |-> standard_normal(random_state, shape), err |-> "ok",
             random_state |-> Advance(random_state, Size(shape))]
       ELSE [val |-> atleast_1d(initial_condition.array), err |-> "ok",
             random_state |-> random_state]

\* lines 104-125: the initial values before they are given two axes
initial_values_of(initial_condition, n_samples, random_state) ==
    IF n_samples.none
    THEN IF initial_condition.callable
         THEN [val |-> Unset, err |-> "ValueError", random_state |-> random_state]
         ELSE [val |-> atleast_1d(initial_condition.array), err |-> "ok",
               random_state |-> random_state]
    ELSE IF initial_condition.callable
         THEN LET shape == <<n_samples.val>> \o initial_condition.array.shape
              IN [val |-> standard_normal(random_state, shape), err |-> "ok",
                  random_state |-> Advance(random_state, Size(shape))]
         ELSE LET condition == atleast_1d(initial_condition.array)
                  ones == Full(<<n_samples.val, condition.shape[1]>>, RInt(1))
              IN IF Broadcastable(condition.shape, ones.shape)
                 THEN [val |-> Elementwise("*", condition, ones), err |-> "ok",
                       random_state |-> random_state]
                 ELSE [val |-> Unset, err |-> "ValueError", random_state |-> random_state]

\* lines 102-137
ResolveInitialValues ==
    /\ self.pc = "start"
    /\ UNCHANGED call
    /\ LET r == initial_values_of(call.initial_condition, call.n_samples, self.random_state)
           initial_values ==
               IF Len(r.val.shape) = 1 THEN NDArray(r.val.shape \o <<1>>, r.val.data) ELSE r.val
       IN IF r.err # "ok" THEN Raised(r.err)
          ELSE IF Len(r.val.shape) > 2
               THEN /\ self' = [self EXCEPT !.pc = "done", !.random_state = r.random_state]
                    /\ result' = [val |-> <<>>, err |-> "ValueError"]
               ELSE /\ self' = [self EXCEPT !.pc = "probe",
                                            !.initial_values = initial_values,
                                            !.n_samples = initial_values.shape[1],
                                            !.dim_codomain = initial_values.shape[2],
                                            !.dim_noise = IF call.dim_noise.none
                                                          THEN initial_values.shape[2]
                                                          ELSE call.dim_noise.val,
                                            !.random_state = r.random_state]
                    /\ UNCHANGED result

\* default_drift and default_diffusion, or the caller's functions
drift(f, t, x) == IF call.drift.none THEN Array0(0) ELSE call.drift.val

diffusion(f, t, x) ==
    IF call.diffusion.none THEN Eye(f.dim_codomain, f.dim_noise)
    ELSE IF t # call.start /\ ~call.diffusion_later.none THEN call.diffusion_later.val
    ELSE call.diffusion.val

\* lines 157-174: the formatting matrix for the probed shape, or no array
\* when the shape is refused
\* Every accepted shape is taken for a matrix.
formatting_matrix_ones(shape, dim_codomain, dim_noise) ==
    IF \/ Len(shape) = 1 /\ shape[1] \in {dim_codomain, 1}
       \/ Len(shape) > 1 /\ SubSeq(shape, Len(shape) - 1, Len(shape)) = <<dim_codomain, dim_noise>>
    THEN Full(<<dim_codomain, dim_noise>>, RInt(1))
    ELSE Unset

formatting_matrix_of(shape, dim_codomain, dim_noise) ==
    IF Len(shape) = 1
    THEN IF shape[1] \in {dim_codomain, 1} THEN Eye(dim_codomain, dim_noise) ELSE Unset
    ELSE IF SubSeq(shape, Len(shape) - 1, Len(shape)) = <<dim_codomain, dim_noise>>
         THEN Full(<<dim_codomain, dim_noise>>, RInt(1))
         ELSE Unset

ProbeDiffusion ==
    /\ self.pc = "probe"
    /\ UNCHANGED call
    /\ LET test_diffusion_dim == atleast_1d(diffusion(self, call.start, self.initial_values))
           formatting_matrix ==
               formatting_matrix_of(test_diffusion_dim.shape, self.dim_codomain, self.dim_noise)
       IN IF formatting_matrix = Unset THEN Raised("ValueError")
          ELSE /\ self' = [self EXCEPT !.pc = "noise", !.formatting_matrix = formatting_matrix]
               /\ UNCHANGED result

\* np.linspace(start, stop, num)
linspace(start, stop, num) ==
    [i \in 1..num |->
        IF i = num /\ num > 1 THEN stop
        ELSE RAdd(start, RMul(RInt(i - 1), RDiv(RSub(stop, start), RInt(num - 1))))]

\* lines 182-188
DrawNoise ==
    /\ self.pc = "noise"
    /\ UNCHANGED call
    /\ LET times == linspace(call.start, call.stop, call.n_grid_points)
           shape == <<self.n_samples, call.n_grid_points - 1, self.dim_noise>>
           zeros == Full(<<self.n_samples, call.n_grid_points, self.dim_codomain>>, RInt(0))
       IN IF Len(times) < 2 THEN Raised("IndexError")
          ELSE /\ self' = [self EXCEPT !.pc = "step",
                                       !.data_matrix = SetSlice(zeros, 0, self.initial_values),
                                       !.times = times,
                                       !.step_size = RSub(times[2], times[1]),
                                       !.noise = standard_normal(self.random_state, shape),
                                       !.random_state = Advance(self.random_state, Size(shape))]
               /\ UNCHANGED result

\* np.einsum('...dj, ...j -> ...d', F, N), N having two axes
einsum(F, N) ==
    LET lead == BroadcastShape(SubSeq(F.shape, 1, Len(F.shape) - 2), <<N.shape[1]>>)
        shape == lead \o <<F.shape[Len(F.shape) - 1]>>
    IN NDArray(shape,
               [k \in 1..Size(shape) |->
                   LET idx == Unravel(shape, k - 1)
                       e == SubSeq(idx, 1, Len(lead))
                   IN RSum([j \in 1..N.shape[2] |->
                               RMul(At(F, e \o <<idx[Len(idx)], j - 1>>),
                                    At(N, e \o <<j - 1>>))])])

\* a value of this shape can be assigned to a slice data_matrix[:, n]
Assignable(shape, n_samples, dim_codomain) ==
    /\ Broadcastable(shape, <<n_samples, dim_codomain>>)
    /\ BroadcastShape(shape, <<n_samples, dim_codomain>>) = <<n_samples, dim_codomain>>

\* A step that chooses the formatting matrix anew from the diffusion of the
\* step.
next_value_reprobed(f, t_n, x_n) ==
    LET d == diffusion(f, t_n, x_n)
        formatted_diffusion ==
            Elementwise("*", d, formatting_matrix_of(atleast_1d(d).shape, f.dim_codomain,
                                                     f.dim_noise))
        noisy == einsum(formatted_diffusion, Slice(f.noise, f.n))
    IN Elementwise("+",
           Elementwise("+", x_n,
               Elementwise("*", NDArray(<<>>, <<f.step_size>>), drift(f, t_n, x_n))),
           Elementwise("*", noisy, NDArray(<<>>, <<Sqrt(f.step_size)>>)))

\* A step that forgets the step size.
next_value_unscaled(f, t_n, x_n) == Elementwise("+", x_n, drift(f, t_n, x_n))

\* lines 194-202: the value assigned to data_matrix[:, n + 1], or no array
\* when numpy cannot combine the shapes
next_value(f, t_n, x_n) ==
    LET d == diffusion(f, t_n, x_n)
        formatted_diffusion == Elementwise("*", d, f.formatting_matrix)
        noisy == einsum(formatted_diffusion, Slice(f.noise, f.n))
    IN IF ~Broadcastable(d.shape, f.formatting_matrix.shape) THEN Unset
       ELSE IF \/ formatted_diffusion.shape[Len(formatted_diffusion.shape)] # f.dim_noise
               \/ ~Broadcastable(SubSeq(formatted_diffusion.shape, 1,
                                        Len(formatted_diffusion.shape) - 2),
                                 <<f.n_samples>>)
            THEN Unset
       ELSE IF ~Assignable(noisy.shape, f.n_samples, f.dim_codomain) THEN Unset
       ELSE Elementwise("+",
                Elementwise("+", x_n,
                    Elementwise("*", NDArray(<<>>, <<f.step_size>>), drift(f, t_n, x_n))),
                Elementwise("*", noisy, NDArray(<<>>, <<Sqrt(f.step_size)>>)))

\* lines 190-202: one turn of the loop
Step ==
    /\ self.pc = "step"
    /\ self.n < call.n_grid_points - 1
    /\ UNCHANGED call
    /\ LET value == next_value(self, self.times[self.n + 1], Slice(self.data_matrix, self.n))
       IN IF value = Unset THEN Raised("ValueError")
          ELSE /\ self' = [self EXCEPT !.n = @ + 1,
                                       !.data_matrix = SetSlice(@, self.n + 1, value)]
               /\ UNCHANGED result

\* lines 204-207
ReturnGrid ==
    /\ self.pc = "step"
    /\ self.n = call.n_grid_points - 1
    /\ UNCHANGED call
    /\ self' = [self EXCEPT !.pc = "done"]
    /\ result' = [val |-> [data_matrix |-> self.data_matrix, grid_points |-> self.times],
                  err |-> "ok"]

\* The calls of euler_maruyama that are followed.  An argument left at None
\* is NoInt (n_samples, dim_noise) or NoFunction (drift, diffusion).
NoInt == [val |-> 0, none |-> TRUE]
NoFunction == [val |-> Unset, none |-> TRUE]

ShapesOf(lo, hi) == UNION {[1..k -> 1..MaxDim] : k \in lo..hi}

\* an array holding 1, 2, 3, ... in row-major order
Ascending(shape) == NDArray(shape, [k \in 1..Size(shape) |-> RInt(k)])

\* initial_condition: an array of up to three axes, or a generator, which
\* here returns size samples of the shape of its array
InitialConditions ==
    {[array |-> Ascending(shape), callable |-> FALSE] : shape \in ShapesOf(0, 3)}
    \cup {[array |-> Full(shape, RInt(0)), callable |-> TRUE] : shape \in ShapesOf(0, 2)}

\* <<start, stop, n_grid_points>>: steps of length -1, 0, 1/4 and 1 from
\* start = 1, and a grid of a single point
TimeGrids ==
    {<<RInt(1), RAdd(RInt(1), RMul(h, RInt(g - 1))), g>> :
        h \in {<<-1, 1>>, <<0, 1>>, <<1, 4>>, <<1, 1>>}, g \in 2..MaxGrid}
    \cup {<<RInt(0), RInt(1), 1>>}

EulerMaruyamaCall(initial_condition, grid, drift_arg, diffusion_arg, n_samples, dim_noise, seed) ==
    [random_state |-> RandomState(seed), n_samples |-> n_samples,
     dim_noise |-> dim_noise, initial_condition |-> initial_condition, drift |-> drift_arg,
     diffusion |-> diffusion_arg, start |-> grid[1], diffusion_later |-> NoFunction,
     stop |-> grid[2], n_grid_points |-> grid[3]]

\* Four families of calls: every initial condition on two grids; every
\* drift, zero or default diffusion, grid and number of samples from initial
\* conditions of one axis; every shape of diffusion on one grid; diffusions
\* that return a scalar, a vector or a matrix at start and another of them
\* later, on the longest grid.
EulerMaruyamaCalls ==
    {EulerMaruyamaCall(ic, grid, NoFunction, NoFunction, ns, dn, seed) :
        ic \in InitialConditions,
        grid \in {<<RInt(0), RInt(1), 1>>, <<RInt(1), RInt(2), 2>>},
        ns \in {NoInt} \cup {Given(k) : k \in 1..MaxDim},
        dn \in {NoInt, Given(MaxDim)}, seed \in 0..MaxSeed}
    \cup
    {EulerMaruyamaCall([array |-> Ascending(shape), callable |-> FALSE], grid, dr, df,
                       ns, dn, seed) :
        shape \in ShapesOf(1, 1), grid \in TimeGrids,
        dr \in {NoFunction, Given(Array0(-1)), Given(Array0(2))},
        df \in {NoFunction, Given(Array0(0))},
        ns \in {NoInt} \cup {Given(k) : k \in 1..MaxDim},
        dn \in {NoInt, Given(MaxDim)}, seed \in 0..MaxSeed}
    \cup
    {EulerMaruyamaCall([array |-> Ascending(shape), callable |-> FALSE],
                       <<RInt(1), RInt(2), 2>>, Given(Array0(2)),
                       Given(Full(probe, RInt(g))), NoInt, dn, seed) :
        shape \in ShapesOf(2, 2), probe \in ShapesOf(0, 3), g \in 0..1,
        dn \in {NoInt, Given(MaxDim), Given(MaxDim + 1)}, seed \in 0..MaxSeed}
    \cup
    {[EulerMaruyamaCall([array |-> Ascending(<<ns, 2>>), callable |-> FALSE],
                        <<RInt(1), RInt(MaxGrid), MaxGrid>>, NoFunction,
                        Given(Full(probe, RInt(1))), NoInt, NoInt, seed)
         EXCEPT !.diffusion_later = Given(Full(later, RInt(1)))] :
        ns \in 1..2, probe \in {<<>>, <<2>>, <<2, 2>>}, later \in {<<>>, <<2>>, <<2, 2>>},
        seed \in 0..MaxSeed}

InitEM ==
    /\ call \in EulerMaruyamaCalls
    /\ self = Frame(call.random_state)
    /\ result = Running

NextEM == ResolveInitialValues \/ ProbeDiffusion \/ DrawNoise \/ Step \/ ReturnGrid

SpecEM == InitEM /\ [][NextEM]_vars

\* ------------------------------------------- make_multimodal_landmarks/samples
\* The caller's world: a RandomState object the caller holds (instance),
\* numpy's global RandomState, which random_state=None stands for, and the
\* last run of each generator: the state its random state was in when the
\* run started, and what it returned.  call holds the arguments.

MaxCalls == 2    \* calls of the generators in one behaviour

\* validate_random_state: a new RandomState for a seed, the object itself
\* for a RandomState, numpy's global one for None
validate_random_state(world, random_state) ==
    IF random_state.kind = "seed" THEN RandomState(random_state.seed)
    ELSE IF random_state.kind = "instance" THEN world.instance
    ELSE world.global

\* the world once the call has drawn from its random state
Drawn(world, random_state, used) ==
    IF random_state.kind = "seed" THEN world
    ELSE IF random_state.kind = "instance" THEN [world EXCEPT !.instance = used]
    ELSE [world EXCEPT !.global = used]

\* random_state.multivariate_normal((0,) * dim, std * np.eye(dim), size=size):
\* independent draws, each scaled by the root of its variance
multivariate_normal(random_state, std, dim, size) ==
    Elementwise("*", NDArray(<<>>, <<Sqrt(std)>>), standard_normal(random_state, size \o <<dim>>))

\* random_state.normal(0, scale, size=shape)
normal(random_state, scale, shape) ==
    Elementwise("*", NDArray(<<>>, <<scale>>), standard_normal(random_state, shape))

\* lines 444-459
make_multimodal_landmarks(c, random_state) ==
    LET points == linspace(c.start, c.stop, c.n_modes + 2)
        modes_location ==
            NDArray(<<c.n_modes, c.dim_domain>>,
                    [k \in 1..(c.n_modes * c.dim_domain) |->
                        points[2 + ((k - 1) \div c.dim_domain)]])
        size == <<c.n_samples, c.dim_codomain, c.n_modes>>
        variation == multivariate_normal(random_state, c.std, c.dim_domain, size)
    IN [val |-> Elementwise("+", modes_location, variation), err |-> "ok",
        random_state |-> Advance(random_state, Size(size) * c.dim_domain)]

\* the shape of data_matrix (line 554)
RECURSIVE Repeat(_, _)
Repeat(x, n) == IF n = 0 THEN <<>> ELSE <<x>> \o Repeat(x, n - 1)

data_shape(c) == <<c.n_samples>> \o Repeat(c.points_per_dim, c.dim_domain) \o <<c.dim_codomain>>

\* lines 538-551.  grid_points: one row per dimension of the domain, each
\* the axis.  np.meshgrid(*grid_points)[m] at the index idx of the grid,
\* counted from 0: with the default indexing 'xy' the first axis of the
\* output runs over the second input and the second axis over the first.
grid_points(c) ==
    [m \in 1..c.dim_domain |-> linspace(c.start, c.stop, c.points_per_dim)]

meshgrid(points, m, idx) ==
    LET along == IF m = 1 THEN 2 ELSE IF m = 2 THEN 1 ELSE m
    IN points[m][idx[along] + 1]

\* evaluation_grid[idx], a point of the domain; points is grid_points, or
\* the axis alone for a domain of one dimension
evaluation_grid(points, idx) ==
    IF Len(points) = 1 THEN <<points[1][idx[1] + 1]>>
    ELSE [m \in 1..Len(points) |-> meshgrid(points, m, idx)]

\* multivariate_normal.pdf(x, mean, mode_std * I) is kept as the squared
\* distance of x to mean, of which it is a decreasing function.
pdf(x, mean) ==
    RSum([m \in DOMAIN x |-> RMul(RSub(x[m], mean[m]), RSub(x[m], mean[m]))])

\* lines 553-571: data_matrix before the noise, every entry kept as the
\* densities that were added to it, one per mode in the order of the loop.
mode_densities(c, location) ==
    LET shape == data_shape(c)
        points == grid_points(c)
    IN NDArray(shape,
               [n \in 1..Size(shape) |->
                   LET full == Unravel(shape, n - 1)
                       x == evaluation_grid(points, SubSeq(full, 2, c.dim_domain + 1))
                   IN [k \in 1..c.n_modes |->
                          pdf(x, [m \in 1..c.dim_domain |->
                                     At(location, <<full[1], full[c.dim_domain + 2],
                                                    k - 1, m - 1>>)])]])

\* The noise is drawn before the modes are placed.
make_multimodal_samples_noise_first(c, random_state) ==
    LET noise == normal(random_state, c.noise, data_shape(c))
        landmarks == make_multimodal_landmarks(c, Advance(random_state, Size(data_shape(c))))
    IN [val |-> [noise |-> noise, grid_points |-> grid_points(c),
                 location |-> landmarks.val,
                 modes |-> mode_densities(c, landmarks.val)], err |-> "ok",
        random_state |-> landmarks.random_state]

\* lines 517-576.  The data matrix is kept as its parts: the centres
\* (location), the densities added at every entry (modes) and the noise.
make_multimodal_samples(c, random_state) ==
    LET shape == <<c.n_samples, c.dim_codomain, c.n_modes, c.dim_domain>>
        landmarks == make_multimodal_landmarks(c, random_state)
        after == IF c.modes_location.none THEN landmarks.random_state ELSE random_state
        location == IF c.modes_location.none THEN landmarks.val
                    ELSE NDArray(shape, c.modes_location.val.data)
        noise == normal(after, c.noise, data_shape(c))
    IN IF ~c.modes_location.none /\ Size(c.modes_location.val.shape) # Size(shape)
       THEN [val |-> [noise |-> Unset, grid_points |-> <<>>, location |-> Unset,
                      modes |-> Unset], err |-> "ValueError",
             random_state |-> random_state]
       ELSE [val |-> [noise |-> noise, grid_points |-> grid_points(c),
                      location |-> location,
                      modes |-> mode_densities(c, location)], err |-> "ok",
             random_state |-> Advance(after, Size(data_shape(c)))]

NoRun == [n |-> 0, val |-> Unset, started |-> RandomState(0)]

\* One of the two generators is called with the arguments of call and the
\* given random_state argument.
Generate(op, random_state) ==
    LET started == validate_random_state(self, random_state)
        r == IF op = "make_multimodal_landmarks"
             THEN make_multimodal_landmarks(call, started)
             ELSE make_multimodal_samples(call, started)
        run == [n |-> self.n + 1,
                val |-> r.val,
                started |-> started]
        world == Drawn(self, random_state, r.random_state)
    IN /\ self.n < MaxCalls
       /\ call' = [call EXCEPT !.op = op, !.random_state = random_state]
       /\ result' = [val |-> r.val, err |-> r.err]
       /\ self' = IF r.err # "ok" THEN [world EXCEPT !.n = @ + 1]
                  ELSE IF op = "make_multimodal_landmarks"
                       THEN [world EXCEPT !.n = @ + 1, !.landmarks = run]
                       ELSE [world EXCEPT !.n = @ + 1, !.samples = run]

MakeMultimodalLandmarks(RS) == \E random_state \in RS : Generate("make_multimodal_landmarks", random_state)

MakeMultimodalSamples(RS) == \E random_state \in RS : Generate("make_multimodal_samples", random_state)

\* random_state: a seed, the caller's RandomState object, or None
RandomStates ==
    {[kind |-> "seed", seed |-> seed] : seed \in 0..MaxSeed}
    \cup {[kind |-> "instance", seed |-> 0], [kind |-> "None", seed |-> 0]}

\* modes_location: None, or a sequence of the right or of a wrong length
ModesLocations(n) ==
    {NoFunction, Given(Ascending(<<n>>)), Given(Ascending(<<n + 1>>))}

InitMM ==
    /\ self = [n |-> 0, instance |-> RandomState(0),
               global |-> RandomState(MaxSeed), landmarks |-> NoRun, samples |-> NoRun]
    /\ \E n_samples \in 1..2, n_modes \in 1..2, points_per_dim \in {2},
          dim_domain \in 1..2, dim_codomain \in 1..2,
          std \in {<<1, 4>>}, noise \in {RInt(1)} :
        \E modes_location \in ModesLocations(n_samples * dim_codomain * n_modes * dim_domain) :
            call = [op |-> "none", random_state |-> [kind |-> "None", seed |-> 0],
                    n_samples |-> n_samples, dim_codomain |-> dim_codomain,
                    noise |-> noise, start |-> RInt(-1), stop |-> RInt(1),
                    std |-> std, n_modes |-> n_modes, modes_location |-> modes_location,
                    dim_domain |-> dim_domain, points_per_dim |-> points_per_dim]
    /\ result = Running

NextMM == MakeMultimodalLandmarks(RandomStates) \/ MakeMultimodalSamples(RandomStates)

SpecMM == InitMM /\ [][NextMM]_vars

\* ------------------------------------------------------ make_random_warping
\* make_random_warping, one action per stage.  self is the frame of the
\* running call, v the matrix of line 647 as rows v[i][s] (grid point i,
\* sample s), both counted from 1.  The numbers are exact fractions, so the
\* irrational values of numpy are followed as far as fractions go:
\*   - the angles j * omega * time are whole quarter turns for the arguments
\*     that are followed, where cos and sin are 0, 1 or -1;
\*   - np.sqrt(2) is the fraction sqrt2;
\*   - the norm of a sample is kept as its square; sin(norm) / norm and
\*     cos(norm) are 0 / 0 and 1 for the norm 0, and for a positive norm any
\*     of the pairs of ExponentialMaps.

sqrt2 == <<3, 2>>

\* <<sin(norm) / norm, cos(norm)>> for norms between 0 and 3 pi / 2
ExponentialMaps == {<<<<1, 1>>, <<1, 2>>>>, <<<<1, 2>>, <<0, 1>>>>,
                    <<<<0, 1>>, <<-1, 1>>>>, <<<<-1, 4>>, <<0, 1>>>>}

\* cos and sin of m quarter turns
CosQuarter(m) == RInt(<<1, 0, -1, 0>>[(m % 4) + 1])
SinQuarter(m) == RInt(<<0, 1, 0, -1>>[(m % 4) + 1])

\* j * omega * time[i] in quarter turns (lines 636-644)
QuarterTurns(c, j, i) ==
    (4 * j * (i - 1)) \div ((c.shape_parameter + 1) * (c.n_features - 1))

\* lines 647-656: v and the random state after its draws; the harmonic j
\* takes the 2 * n_samples numbers that follow those of the harmonics before
tangent(c, random_state) ==
    LET sqrt_sigma == Sqrt(c.sigma)
        draw(k) == RMul(sqrt_sigma, StreamAt(random_state.seed, random_state.pos + k))
        alpha(j, row, sample) ==
            RMul(draw(c.n_samples + (j - 2) * 2 * c.n_samples + row * c.n_samples + sample - 1),
                 sqrt2)
    IN [val |-> [i \in 1..c.n_features |-> [sample \in 1..c.n_samples |->
                    RAdd(draw(sample - 1),
                         RSum([h \in 1..c.n_random |->
                                 RAdd(RMul(alpha(h + 1, 0, sample),
                                           CosQuarter(QuarterTurns(c, h + 1, i))),
                                      RMul(alpha(h + 1, 1, sample),
                                           SinQuarter(QuarterTurns(c, h + 1, i))))]))]],
        random_state |-> Advance(random_state, c.n_samples + 2 * c.n_samples * c.n_random)]

\* v.mean(axis=0), of the sample s
column_mean(v, sample) ==
    RDiv(RSum([i \in DOMAIN v |-> v[i][sample]]), RInt(Len(v)))

\* lines 661-662, squared: (np.linalg.norm(v, axis=0) / np.sqrt(n_features)) ** 2
squared_norm(v, sample) ==
    RDiv(RSum([i \in DOMAIN v |-> RMul(v[i][sample], v[i][sample])]), RInt(Len(v)))

\* np.sin(v_norm) / v_norm and np.cos(v_norm): the pairs a norm may give
exponential_maps(norm2) ==
    IF norm2 = RInt(0) THEN {<<RDiv(RInt(0), RInt(0)), RInt(1)>>} ELSE ExponentialMaps

\* scipy.integrate.cumtrapz(v, dx=dx, initial=0, axis=0), of the sample s
RECURSIVE cumtrapz(_, _, _, _)
cumtrapz(v, dx, sample, i) ==
    IF i = 1 THEN RInt(0)
    ELSE RAdd(cumtrapz(v, dx, sample, i - 1),
              RMul(RDiv(RAdd(v[i - 1][sample], v[i][sample]), RInt(2)), dx))

\* normalize_warping(warping, domain_range=(a, b)) on one sample or on the
\* grid: moved to start at 0, scaled to the length b - a, moved to a, and the
\* two ends set to a and b
normalize_scale(t, a, b) ==
    [i \in DOMAIN t |->
        IF i = Len(t) THEN b
        ELSE IF i = 1 THEN a
        ELSE RAdd(RMul(RSub(t[i], t[1]), RDiv(RSub(b, a), RSub(t[Len(t)], t[1]))), a)]

WarpingFrame(random_state) ==
    [v |-> <<>>, random_state |-> random_state, pc |-> "tangent", v_norm |-> <<>>]

\* lines 634-656
DrawTangent ==
    /\ self.pc = "tangent"
    /\ UNCHANGED <<call, result>>
    /\ LET r == tangent(call, self.random_state)
       IN self' = [self EXCEPT !.pc = "center", !.v = r.val, !.random_state = r.random_state]

\* lines 658-662
CenterTangent ==
    /\ self.pc = "center"
    /\ UNCHANGED <<call, result>>
    /\ LET v == [i \in DOMAIN self.v |-> [sample \in 1..call.n_samples |->
                    RSub(self.v[i][sample], column_mean(self.v, sample))]]
       IN self' = [self EXCEPT !.pc = "map", !.v = v,
                               !.v_norm = [sample \in 1..call.n_samples |->
                                              squared_norm(v, sample)]]

\* lines 665-667
ExponentialMap ==
    /\ self.pc = "map"
    /\ UNCHANGED <<call, result>>
    /\ \E maps \in [1..call.n_samples -> ExponentialMaps \cup exponential_maps(RInt(0))] :
        /\ \A sample \in 1..call.n_samples : maps[sample] \in exponential_maps(self.v_norm[sample])
        /\ self' = [self EXCEPT !.pc = "integrate",
                                !.v = [i \in DOMAIN self.v |-> [sample \in 1..call.n_samples |->
                                          LET x == RAdd(RMul(self.v[i][sample], maps[sample][1]),
                                                        maps[sample][2])
                                          IN RMul(x, x)]]]

\* lines 670-683: the samples as rows, on the grid of [start, stop]
Integrate ==
    /\ self.pc = "integrate"
    /\ UNCHANGED call
    /\ self' = [self EXCEPT !.pc = "done"]
    /\ result' =
        [val |-> [data_matrix |->
                      [sample \in 1..call.n_samples |->
                          normalize_scale([i \in 1..call.n_features |->
                                              cumtrapz(self.v, RDiv(RInt(1), RInt(call.n_features)),
                                                       sample, i)],
                                          call.start, call.stop)],
                  grid_points |-> normalize_scale(linspace(RInt(0), RInt(1), call.n_features),
                                                  call.start, call.stop)],
         err |-> "ok"]

\* The calls that are followed: grids of two or more points on which the
\* angles are whole quarter turns.
WarpingCalls ==
    {[random_state |-> RandomState(seed), n_samples |-> n_samples, start |-> RInt(interval[1]),
      stop |-> RInt(interval[2]), shape_parameter |-> grid[1], n_features |-> grid[2],
      sigma |-> sigma, n_random |-> n_random] :
        n_samples \in 1..MaxDim,
        grid \in {g \in (1..3) \X (2..MaxGrid) : 4 % ((g[1] + 1) * (g[2] - 1)) = 0},
        interval \in {<<0, 1>>, <<1, 3>>}, sigma \in {RInt(0), RInt(1), <<1, 4>>},
        n_random \in 0..2, seed \in 0..MaxSeed}

InitRW ==
    /\ call \in WarpingCalls
    /\ self = WarpingFrame(call.random_state)
    /\ result = Running

NextRW == DrawTangent \/ CenterTangent \/ ExponentialMap \/ Integrate

SpecRW == InitRW /\ [][NextRW]_vars

\* ------------------------------------------------------ concurrent calls
\* SpecThreads: two threads call fit, kneighbors(None) and predict on one
\* instance with a callable metric.  A call runs one statement of _fit or
\* _refit_with_distances per step; call.threads[t] is the frame of thread t
\* (its arguments, the line it stands at and its local distances),
\* result[t] what its call returned, until the caller has taken it.  With
\* call.serialized the caller holds a lock around every call (call.owner),
\* so calls do not overlap, and the frame keeps in entry the instance as
\* the call found it; without it the steps of the two threads interleave
\* freely.

Threads == 1..2

IdleFrame ==
    [X |-> <<>>, y |-> NoArray, metric_raises |-> FALSE, distances |-> <<>>, op |-> "none",
     pc |-> "idle", entry |-> NewModel("callable", "classifier", "k", 1, 0, "uniform", NoneArg)]

\* Thread t goes on: the instance, its frame and its result after the step.
Goto(t, s, f, r) ==
    /\ self' = s
    /\ call' = [call EXCEPT !.threads[t] = f]
    /\ result' = [result EXCEPT ![t] = r]

Stands(t, op, pc) == call.threads[t].op = op /\ call.threads[t].pc = pc

Jump(t, s, pc) == Goto(t, s, [call.threads[t] EXCEPT !.pc = pc], result[t])

Leave(t, s, val, err) ==
    Goto(t, s, [call.threads[t] EXCEPT !.pc = "returned"], [val |-> val, err |-> err])

\* Thread t calls op: under the lock when calls are serialized.
Begin(t, op, pc, X, y, metric_raises) ==
    /\ call.threads[t].pc = "idle"
    /\ call.serialized => call.owner = 0
    /\ self' = self
    /\ call' = [call EXCEPT !.threads[t] = [X |-> X, y |-> y, metric_raises |-> metric_raises,
                                            distances |-> <<>>, op |-> op, pc |-> pc,
                                            entry |-> IF call.serialized THEN self
                                                      ELSE IdleFrame.entry],
                            !.owner = IF call.serialized THEN t ELSE 0]
    /\ result' = [result EXCEPT ![t] = Running]

\* The call of thread t is over: the lock is released.
Return(t) ==
    /\ call.threads[t].pc = "returned"
    /\ self' = self
    /\ call' = [call EXCEPT !.threads[t] = IdleFrame, !.owner = 0]
    /\ result' = [result EXCEPT ![t] = Running]

\* fit(X, y), of NeighborsBase: _fit with fit_with_zeros=True
CallFit(t, XYS) ==
    \E Xy \in XYS : Begin(t, "fit", "117", Xy[1], Xy[2], Xy[3])

\* line 117
FitInitEstimator(t) ==
    /\ Stands(t, "fit", "117")
    /\ Jump(t, [self EXCEPT !.has_estimator = TRUE, !.estimator = init_estimator(self)], "119")

\* line 119
FitSetFlag(t) ==
    /\ Stands(t, "fit", "119")
    /\ Jump(t, [self EXCEPT !.fitted_with_distances = "True"], "126")

\* line 126
FitMetric(t) ==
    /\ Stands(t, "fit", "126")
    /\ IF call.threads[t].metric_raises THEN Leave(t, self, <<>>, "MetricError")
       ELSE Jump(t, self, "127")

\* line 127
FitCopyX(t) ==
    /\ Stands(t, "fit", "127")
    /\ Jump(t, [self EXCEPT !.fit_X = deepcopy(CallerX(call.threads[t].X))], "128")

\* line 128
FitCopyY(t) ==
    /\ Stands(t, "fit", "128")
    /\ Jump(t, [self EXCEPT !.fit_y = deepcopy(CallerY(call.threads[t].y))], "130")

\* line 130
FitClearFlag(t) ==
    /\ Stands(t, "fit", "130")
    /\ Jump(t, [self EXCEPT !.fitted_with_distances = "False"], "131")

\* line 131: the index self._estimator names now is fitted on the zeros
FitZeros(t) ==
    /\ Stands(t, "fit", "131")
    /\ LET r == IndexFit(self.estimator, Own(Zeros(Len(call.threads[t].X))),
                         CallerY(call.threads[t].y), "zeros")
       IN Leave(t, [self EXCEPT !.estimator = r.est], <<>>, r.err)

\* kneighbors(X=None); metric_raises: whether the metric fails when called
CallKneighbors(t) ==
    \E metric_raises \in BOOLEAN : Begin(t, "kneighbors", "252", <<>>, NoArray, metric_raises)

\* line 252
CheckIsFitted(t) ==
    /\ Stands(t, "kneighbors", "252")
    /\ IF self.has_estimator THEN Jump(t, self, "139")
       ELSE Leave(t, self, <<>>, "NotFittedError")

\* line 139
RefitTest(t) ==
    /\ Stands(t, "kneighbors", "139")
    /\ CASE self.fitted_with_distances = "unset" -> Leave(t, self, <<>>, "AttributeError")
         [] self.fitted_with_distances = "True" -> Jump(t, self, "256")
         [] OTHER -> Jump(t, self, "141")

\* line 141
RefitDistances(t) ==
    /\ Stands(t, "kneighbors", "141")
    /\ IF self.fit_X.cell = "unset" THEN Leave(t, self, <<>>, "AttributeError")
       ELSE IF call.threads[t].metric_raises THEN Leave(t, self, <<>>, "MetricError")
       ELSE Goto(t, self, [call.threads[t] EXCEPT !.pc = "142",
                                                  !.distances = PairwiseMetric(self.fit_X.val,
                                                                               self.fit_X.val)],
                 result[t])

\* The flag set with the index fit still to come.
refit_index_flagged(s, distances) ==
    LET r == IndexFit(s.estimator, Own(distances), s.fit_y, "distances")
    IN [self |-> [s EXCEPT !.estimator = r.est, !.fitted_with_distances = "True"],
        err |-> r.err]

\* line 142
refit_index(s, distances) ==
    LET r == IndexFit(s.estimator, Own(distances), s.fit_y, "distances")
    IN [self |-> [s EXCEPT !.estimator = r.est], err |-> r.err]

RefitIndex(t) ==
    /\ Stands(t, "kneighbors", "142")
    /\ LET r == refit_index(self, call.threads[t].distances)
       IN IF r.err = "ok" THEN Jump(t, r.self, "143") ELSE Leave(t, r.self, <<>>, r.err)

\* line 143
RefitSetFlag(t) ==
    /\ Stands(t, "kneighbors", "143")
    /\ Jump(t, [self EXCEPT !.fitted_with_distances = "True"], "256")

\* lines 256-261: the index is asked about its own training set
AskNeighbors(t) ==
    /\ Stands(t, "kneighbors", "256")
    /\ \E r \in AskIndex(self, NoneArg, <<"kneighbors", self.n_neighbors, "none">>) :
           Leave(t, self, r.val, r.err)

\* predict(X), of the classifier: it reads the instance and writes nothing
CallPredict(t, XS) ==
    \E X \in XS : Begin(t, "predict", "510", X, NoArray, FALSE)

\* lines 510-514
Predict(t) ==
    /\ Stands(t, "predict", "510")
    /\ \E r \in classifier_predict(self, call.threads[t].X) : Leave(t, r.self, r.val, r.err)

\* The fits: two training sets of two samples with their targets, one
\* with a target short of a sample, and one the metric's own fit rejects.
ThreadFits ==
    {<<<<0, 1>>, Ramps(2), FALSE>>, <<<<0, MaxPoint>>, Ramps(2), FALSE>>,
     <<<<0, 1>>, Ramps(1), FALSE>>, <<<<0, 1>>, Ramps(2), TRUE>>}

InitThreads ==
    /\ self = NewModel("callable", "classifier", "k", 1, 0, "uniform", NoneArg)
    /\ \E serialized \in BOOLEAN :
           call = [threads |-> [t \in Threads |-> IdleFrame], serialized |-> serialized, owner |-> 0]
    /\ result = [t \in Threads |-> Running]

NextThreads ==
    \E t \in Threads :
        \/ CallFit(t, ThreadFits)
        \/ FitInitEstimator(t)
        \/ FitSetFlag(t)
        \/ FitMetric(t)
        \/ FitCopyX(t)
        \/ FitCopyY(t)
        \/ FitClearFlag(t)
        \/ FitZeros(t)
        \/ CallKneighbors(t)
        \/ CheckIsFitted(t)
        \/ RefitTest(t)
        \/ RefitDistances(t)
        \/ RefitIndex(t)
        \/ RefitSetFlag(t)
        \/ AskNeighbors(t)
        \/ CallPredict(t, {<<0>>})
        \/ Predict(t)
        \/ Return(t)

SpecThreads == InitThreads /\ [][NextThreads]_vars

\* ------------------------------------------------------ the linear smoother
\* SpecLS: one _LinearSmoother of skfda/preprocessing/smoothing/_linear.py,
\* from construction on.  Grid points are a tuple of one axis, an axis an
\* increasing sequence of points.  self is the smoother, call the last call
\* and its arguments, result what it returned or raised.

Axes == {p \in SeqsOf(Points, 1, MaxN) : \A i \in 1..(Len(p) - 1) : p[i] < p[i + 1]}
GridPoints == {<<axis>> : axis \in Axes}

\* _to_grid_points: the axis the constructor was given, as a tuple of axes
to_grid_points(axis) == <<axis>>

\* __init__(output_points), lines 32-37
NewSmoother(output_points) ==
    [output_points |-> output_points, input_points_ |-> NoneArg,
     output_points_ |-> NoneArg, hat_matrix_ |-> NoneArg]

\* _hat_matrix(input_points, output_points) of a subclass: one row per
\* output point and one column per input point, the entry a function of the
\* two points it relates, here the two points themselves.
hat_matrix_impl(input_points, output_points) ==
    [i \in DOMAIN output_points[1] |->
        [j \in DOMAIN input_points[1] |-> <<output_points[1][i], input_points[1][j]>>]]

\* hat_matrix(input_points, output_points), lines 39-54.  A smoother never
\* fitted has no input_points_ to read.
hat_matrix(s, input_points, output_points) ==
    IF s.input_points_.none \/ s.output_points_.none
    THEN [val |-> <<>>, err |-> "AttributeError"]
    ELSE LET given_input == IF input_points.none THEN s.input_points_ ELSE input_points
             given_output == IF output_points.none THEN s.output_points_ ELSE output_points
         IN [val |-> hat_matrix_impl(s.input_points_.val, s.output_points_.val),
             err |-> "ok"]

\* fit(X), lines 85-94
smoother_fit(s, X) ==
    LET s1 == [s EXCEPT !.input_points_ = Given(X.grid_points)]
        s2 == [s1 EXCEPT !.output_points_ =
                             IF s.output_points.none THEN s1.input_points_
                             ELSE Given(to_grid_points(s.output_points.val))]
    IN [s2 EXCEPT !.hat_matrix_ = Given(hat_matrix(s2, NoneArg, NoneArg).val)]

NoSmootherCall == [op |-> "none", output_points |-> NoneArg, input_points |-> NoneArg]

SmootherFit ==
    \E points \in GridPoints :
        /\ self' = smoother_fit(self, [grid_points |-> points])
        /\ call' = [NoSmootherCall EXCEPT !.op = "fit", !.input_points = Given(points)]
        /\ result' = [val |-> <<>>, err |-> "ok"]

HatMatrix ==
    \E input_points \in {NoneArg} \cup {Given(g) : g \in GridPoints},
       output_points \in {NoneArg} \cup {Given(g) : g \in GridPoints} :
        /\ UNCHANGED self
        /\ call' = [op |-> "hat_matrix", output_points |-> output_points,
                    input_points |-> input_points]
        /\ result' = hat_matrix(self, input_points, output_points)

InitLS ==
    /\ \E output_points \in {NoneArg} \cup {Given(axis) : axis \in Axes} :
           self = NewSmoother(output_points)
    /\ call = NoSmootherCall
    /\ result = [val |-> <<>>, err |-> "ok"]

NextLS == SmootherFit \/ HatMatrix

SpecLS == InitLS /\ [][NextLS]_vars

\* ------------------------------------------------------------- properties

QueryOps == {"kneighbors", "kneighbors_graph", "radius_neighbors",
             "radius_neighbors_graph"}
CallOps == QueryOps \cup {"fit", "predict", "predict_proba", "score"}

FitReturned == call.op = "fit" /\ result.err = "ok"

\* C1: after fit(X, y) returns with a metric other than "precomputed", _fit_X
\* and _fit_y are private copies of X and y, _fitted_with_distances is False
\* and the index is fitted on the all-zero len(X) x len(X) matrix; with
\* metric "precomputed" the index received the caller's X itself and
\* _fitted_with_distances is True.
C1_FitPostState ==
    FitReturned =>
        IF self.metric # "precomputed"
        THEN /\ self.fit_X = Own(call.X.val)
             /\ self.fit_y = Own(call.y)
             /\ self.fitted_with_distances = "False"
             /\ self.estimator.fitted
             /\ self.estimator.src = "zeros"
             /\ self.estimator.X.val = Zeros(Len(call.X.val))
        ELSE /\ self.estimator.fitted
             /\ self.estimator.X = CallerX(call.X.val)
             /\ self.fitted_with_distances = "True"

C1_Witness ==
    /\ FitReturned
    /\ self.metric = "callable"
    /\ Len(call.X.val) = MaxN
    /\ self.fitted_with_distances = "False"

\* C2: the index is never asked for self-neighbors (query set None) while it
\* is fitted on the zero placeholder, whichever of the four queries asks.
C2_NoSelfQueryOnPlaceholder ==
    ~(result.asked = "self" /\ result.src = "zeros")

C2_Witness ==
    /\ call.op = "radius_neighbors_graph"
    /\ call.X.none
    /\ result.err = "ok"
    /\ result.asked = "self"
    /\ result.src = "distances"

\* C3: every query, predict and score on an estimator on which fit was never
\* called raises NotFittedError.
C3_NotFittedErrorBeforeFit ==
    (~self.has_estimator /\ call.op \in CallOps \ {"fit"}) =>
        result.err = "NotFittedError"

\* C4: a call that raises leaves the instance as it was, but for the
\* transition from placeholder to real distances.
C4_FailedCallKeepsState ==
    [][(call'.op \in CallOps /\ result'.err # "ok") =>
          (self' = self \/ self' = refit_with_distances(self).self)]_vars

\* What the instance answers: the outcomes of the self query, of the
\* explicit queries and of predict.
OutcomesOf(R) == [vals |-> {r.val : r \in {q \in R : q.err = "ok"}},
                  errs |-> {r.err : r \in R}]

QueriesOf(s) ==
    IF s.metric = "precomputed" THEN QueryMatrices ELSE QuerySets

Answers(s) ==
    [neighbors |-> [X \in {NoneArg} \cup {Given(q) : q \in QueriesOf(s)} |->
                       OutcomesOf(kneighbors(s, X, s.n_neighbors))],
     predict |-> [q \in QueriesOf(s) |->
                     OutcomesOf(IF s.kind = "regressor" THEN regressor_predict(s, q)
                                ELSE classifier_predict(s, q))]]

\* C5: once fit(X, y) has returned, the caller's writing into X or y changes
\* no answer of a later query or predict.
C5_CallerMutationInvisible ==
    [][call'.op \in {"caller mutates X", "caller mutates y"} =>
          Answers(self') = Answers(self)]_vars

\* fit(X, y) on a new estimator with the constructor parameters of s.
FreshFit(s, X, y) ==
    LET new == NewModel(s.metric, s.kind, s.search, s.n_neighbors, s.radius,
                        s.weights, s.outlier_response)
    IN IF s.kind = "regressor" THEN regressor_fit(new, CallerX(X), CallerY(y), FALSE).self
       ELSE base_fit(new, CallerX(X), CallerY(y), FALSE).self

\* C6: whatever came before, after fit(X2, y2) returns the fitted state is
\* the state of a new estimator with the same parameters fitted once on
\* (X2, y2).
C6_RefitEqualsFreshFit ==
    FitReturned => self = FreshFit(self, call.X.val, call.y)

\* C7: with a metric for which d(x, x) = 0, kneighbors(X) returns for every
\* query sample that equals a training sample a first neighbor at distance 0
\* which is a training sample at distance 0 from it (the sample itself, or
\* under ties another one at distance 0); so it is for the training set
\* given back as the query and for k = 1 with one training point as the
\* query, whether or not the index still holds the zero placeholder.
C7_TrainingPointIsItsNeighbor ==
    (call.op = "kneighbors" /\ ~call.X.none /\ result.err = "ok") =>
        \A i \in 1..Len(call.X.val) :
            (\E j \in 1..Len(self.fit_X.val) : self.fit_X.val[j] = call.X.val[i]) =>
                /\ result.val.dist[i][1] = 0
                /\ Abs(self.fit_X.val[result.val.ind[i][1]] - call.X.val[i]) = 0

C7_Witness ==
    /\ call.op = "kneighbors"
    /\ result.err = "ok"
    /\ ~call.X.none
    /\ call.X.val = self.fit_X.val
    /\ Len(call.X.val) = MaxN
    /\ call.X.val[1] # call.X.val[MaxN]
    /\ self.fitted_with_distances = "False"
    /\ result.src = "zeros"
    /\ \A i \in 1..MaxN : result.val.ind[i][1] = i

\* The distance from query sample i of the call to training sample j, and
\* the training samples at distance 0 from it.
QueryDistance(i, j) == Abs(call.X.val[i] - self.fit_X.val[j])
Training == 1..Len(self.fit_X.val)
ZeroSet(i) == {j \in Training : QueryDistance(i, j) = 0}

\* The neighbor sets the search may find for query sample i.
NeighborSets(i) ==
    IF self.search = "radius" THEN {{j \in Training : QueryDistance(i, j) <= self.radius}}
    ELSE {S \in SUBSET Training :
            /\ Cardinality(S) = self.n_neighbors
            /\ \A a \in S, b \in Training \ S : QueryDistance(i, a) <= QueryDistance(i, b)}

FunctionalPredictReturned ==
    /\ call.op = "predict"
    /\ self.functional = "True"
    /\ self.estimator.fitted

\* C8: a functional-response predict in which some query sample has no
\* neighbor, with no outlier response configured, raises the error that
\* names the positions (counted from 1 here) of all the query samples
\* without neighbors, wherever the first of them is, and returns nothing
\* else; with no such sample it returns.
C8_AllEmptyQueriesReported ==
    (FunctionalPredictReturned /\ self.search = "radius" /\ self.outlier_response.none) =>
        LET empty == {i \in 1..Len(call.X.val) : \A S \in NeighborSets(i) : S = {}}
        IN IF empty # {}
           THEN result.err = "ValueError: No neighbors found" /\ result.val = empty
           ELSE result.err = "ok"

C8_Witness ==
    /\ FunctionalPredictReturned
    /\ self.outlier_response.none
    /\ result.err = "ValueError: No neighbors found"
    /\ 1 \notin result.val
    /\ Cardinality(result.val) >= 2
    /\ Cardinality(result.val) < Len(call.X.val)

\* The average of the targets of the training samples in S, weighted by c.
RECURSIVE WeightedSum(_, _)
WeightedSum(S, c) ==
    IF S = {} THEN [t \in DOMAIN Grid |-> RInt(0)]
    ELSE LET j == CHOOSE x \in S : TRUE
         IN VAdd(VScale(c[j], VInt(self.fit_y.val.vals[j])), WeightedSum(S \ {j}, c))

RECURSIVE Total(_, _)
Total(S, c) ==
    IF S = {} THEN RInt(0)
    ELSE LET j == CHOOSE x \in S : TRUE IN RAdd(c[j], Total(S \ {j}, c))

WeightedAverage(S, c) == VScale(RDiv(RInt(1), Total(S, c)), WeightedSum(S, c))

\* C9: with weights "distance" the prediction for a query sample is the
\* plain average of the targets of its neighbors at distance 0 if it has
\* any (they weigh 1, the others 0), else the average of its neighbors'
\* targets weighted by the reciprocals of the distances; so a query at
\* distance 0 from exactly one training sample is predicted that sample's
\* target exactly.
C9_DistanceWeights ==
    (FunctionalPredictReturned /\ self.weights = "distance" /\ result.err = "ok") =>
        \A i \in 1..Len(call.X.val) :
            /\ \E S \in NeighborSets(i) :
                   S # {} =>
                       result.val[i] =
                           IF S \cap ZeroSet(i) # {}
                           THEN WeightedAverage(S \cap ZeroSet(i), [j \in Training |-> RInt(1)])
                           ELSE WeightedAverage(S, [j \in Training |-> Rat(1, QueryDistance(i, j))])
            /\ \A j \in Training :
                   ZeroSet(i) = {j} => result.val[i] = VInt(self.fit_y.val.vals[j])

C9_Witness ==
    /\ FunctionalPredictReturned
    /\ self.weights = "distance"
    /\ result.err = "ok"
    /\ \E i \in 1..Len(call.X.val) :
           \E j \in Training, S \in NeighborSets(i) :
               /\ ZeroSet(i) = {j}
               /\ \E a \in S : /\ QueryDistance(i, a) > 0
                               /\ self.fit_y.val.vals[a] # self.fit_y.val.vals[j]
               /\ result.val[i] = VInt(self.fit_y.val.vals[j])

\* The predictions predict may return for the scored X.
ScoredPredictions ==
    {p.val : p \in {q \in regressor_predict(self, call.X.val) : q.err = "ok"}}

TrueResponses == [i \in DOMAIN call.y.vals |-> VInt(call.y.vals[i])]

MeanResponse == VMean(TrueResponses, Width(call.y.vals))

ScoreReturned ==
    /\ call.op = "score"
    /\ call.sample_weight = NoSampleWeight
    /\ result.err = "ok"

ScoreSanity ==
    /\ (\A p \in ScoredPredictions : p = TrueResponses) => result.val = RInt(1)
    /\ (\A p \in ScoredPredictions : \A i \in DOMAIN p : p[i] = MeanResponse) =>
           result.val = RInt(0)

C11_FunctionalScoreErrors ==
    [][(/\ call'.op = "score"
        /\ self.functional = "True"
        /\ \/ call'.y.dims # <<1, 1>>
           \/ /\ call'.sample_weight # NoSampleWeight
              /\ Len(call'.sample_weight) # Len(call'.y.vals))
       => (result'.err = "ValueError" /\ result'.val = <<>> /\ self' = self)]_vars

C11_Witness ==
    /\ call.op = "score"
    /\ self.functional = "True"
    /\ call.y.dims = <<1, 1>>
    /\ call.sample_weight # NoSampleWeight
    /\ Len(call.sample_weight) # Len(call.y.vals)
    /\ ScoredPredictions # {}
    /\ result.err = "ValueError"

\* ---- euler_maruyama

Finished == self.pc = "done" /\ result.err = "ok"

\* diffusion is the function 0, or returns an array of zeros
ZeroDiffusion ==
    /\ ~call.diffusion.none
    /\ call.diffusion_later.none
    /\ \A k \in DOMAIN call.diffusion.val.data : call.diffusion.val.data[k] = RInt(0)

\* the constant the drift returns
DriftConstant == IF call.drift.none THEN RInt(0) ELSE call.drift.val.data[1]

RLessEq(x, y) == x[1] * y[2] <= y[1] * x[2]

\* every sample is initial + c * (t_n - start) at every grid index n
LinearTrajectories ==
    \A s \in 0..(self.n_samples - 1), n \in 0..(call.n_grid_points - 1),
       d \in 0..(self.dim_codomain - 1) :
        At(result.val.data_matrix, <<s, n, d>>)
            = RAdd(At(self.initial_values, <<s, d>>),
                   RMul(DriftConstant, RSub(result.val.grid_points[n + 1], call.start)))

SomeNoise == \E k \in DOMAIN self.noise.data : self.noise.data[k] # RInt(0)

\* C12 as stated: with diffusion 0 and a constant drift c, euler_maruyama
\* produces initial + c * (t_n - start) for every sample and every grid
\* index n, whatever noise was drawn.
C12_LinearAlways == (Finished /\ ZeroDiffusion) => LinearTrajectories

\* C12 as amended: provided start <= stop, with diffusion 0 and a constant
\* drift c euler_maruyama produces initial + c * (t_n - start) for every
\* sample and every grid index n, whatever noise was drawn; with drift 0
\* every trajectory stays at its initial value.
C12_LinearForward ==
    (Finished /\ ZeroDiffusion /\ RLessEq(call.start, call.stop)) => LinearTrajectories

C12_Witness ==
    /\ Finished
    /\ ZeroDiffusion
    /\ LinearTrajectories
    /\ SomeNoise
    /\ DriftConstant = RInt(2)
    /\ call.n_grid_points = MaxGrid
    /\ RSub(call.stop, call.start) = <<1, 2>>
    /\ self.dim_codomain = 2

\* The number of axes of the initial values euler_maruyama resolves, before
\* a single axis is given its second one.
ResolvedAxes ==
    LET given == Len(call.initial_condition.array.shape)
    IN IF call.initial_condition.callable THEN 1 + given
       ELSE IF call.n_samples.none THEN (IF given = 0 THEN 1 ELSE given)
       ELSE IF given < 2 THEN 2 ELSE given

\* C13: when initial_condition is callable and n_samples is None, and when
\* the resolved initial values have more than 2 axes, euler_maruyama fails
\* with ValueError before any noise is drawn and before any step is taken.
C13_FailsBeforeNoise ==
    (\/ call.initial_condition.callable /\ call.n_samples.none
     \/ ~(call.initial_condition.callable /\ call.n_samples.none) /\ ResolvedAxes > 2)
    => /\ self.pc \in {"start", "done"}
       /\ self.noise = Unset
       /\ self.data_matrix = Unset
       /\ self.n = 0
       /\ self.pc = "done" => result.err = "ValueError"

C13_Witness ==
    /\ self.pc = "done"
    /\ result.err = "ValueError"
    /\ call.initial_condition.callable
    /\ ~call.n_samples.none
    /\ ResolvedAxes = 3
    /\ self.random_state.pos > 0
    /\ self.noise = Unset

\* The shape of np.atleast_1d(diffusion(start, initial_values)).
ProbedShape ==
    IF call.diffusion.none THEN <<self.dim_codomain, self.dim_noise>>
    ELSE IF call.diffusion.val.shape = <<>> THEN <<1>>
    ELSE call.diffusion.val.shape

Probed == self.initial_values # Unset /\ self.pc # "probe"

OneAxisAccepted == Len(ProbedShape) = 1 /\ ProbedShape[1] \in {self.dim_codomain, 1}

\* what the probe does with a shape that is or is not one of the accepted
Probe(one_axis, matrix) ==
    /\ self.formatting_matrix # Unset <=> (one_axis \/ matrix)
    /\ (self.formatting_matrix # Unset /\ one_axis)
           => self.formatting_matrix = Eye(self.dim_codomain, self.dim_noise)
    /\ (self.formatting_matrix # Unset /\ matrix)
           => self.formatting_matrix = Full(<<self.dim_codomain, self.dim_noise>>, RInt(1))
    /\ self.formatting_matrix = Unset => (self.pc = "done" /\ result.err = "ValueError")

\* C14 as stated: the probed shape is accepted exactly when it has one axis
\* of length dim_codomain or 1 (identity formatting matrix) or is the
\* two-axis shape (dim_codomain, dim_noise) (all-ones formatting matrix);
\* every other shape fails with ValueError.
C14_ProbeTwoAxes ==
    Probed => Probe(OneAxisAccepted, ProbedShape = <<self.dim_codomain, self.dim_noise>>)

\* C14 as amended: the probed shape is accepted exactly when it has one axis
\* of length dim_codomain or 1 (identity formatting matrix) or has two or
\* more axes of which the last two are (dim_codomain, dim_noise) (all-ones
\* formatting matrix); every other shape fails with ValueError.
C14_ProbeTrailingAxes ==
    Probed => Probe(OneAxisAccepted,
                    /\ Len(ProbedShape) >= 2
                    /\ SubSeq(ProbedShape, Len(ProbedShape) - 1, Len(ProbedShape))
                           = <<self.dim_codomain, self.dim_noise>>)

C14_Witness ==
    /\ Probed
    /\ Len(ProbedShape) = 3
    /\ self.formatting_matrix = Full(<<self.dim_codomain, self.dim_noise>>, RInt(1))
    /\ self.dim_codomain # self.dim_noise
    /\ Finished

\* ---- make_multimodal_landmarks and make_multimodal_samples

\* A run of each generator has been recorded, the samples with
\* modes_location=None, and both started from random states in the same
\* state (the arguments other than random_state are those of call in both).
PairedRuns ==
    /\ self.landmarks.n > 0
    /\ self.samples.n > 0
    /\ call.modes_location.none
    /\ self.landmarks.started = self.samples.started

ModesAtLandmarks == PairedRuns => self.samples.val.location = self.landmarks.val

\* the numbers the landmarks take from the stream
LandmarkDraws == call.n_samples * call.dim_codomain * call.n_modes * call.dim_domain

\* the noise of the samples is what the stream holds right after the
\* numbers of the landmarks
NoiseAfterLandmarks ==
    (self.samples.n > 0 /\ call.modes_location.none)
    => \A k \in DOMAIN self.samples.val.noise.data :
          self.samples.val.noise.data[k]
              = RMul(call.noise,
                     StreamAt(self.samples.started.seed,
                              self.samples.started.pos + LandmarkDraws + k - 1))

\* a generator run again from a random state in the same state returns the same
Reproducible ==
    /\ (self.landmarks.n > 0 /\ self'.landmarks.n > self.landmarks.n
        /\ self'.landmarks.started = self.landmarks.started)
       => self'.landmarks.val = self.landmarks.val
    /\ (self.samples.n > 0 /\ self'.samples.n > self.samples.n
        /\ self'.samples.started = self.samples.started)
       => self'.samples.val = self.samples.val

FloatLessEq(x, y) ==
    /\ x # <<0, 0>>
    /\ y # <<0, 0>>
    /\ IF x[2] = 0 \/ y[2] = 0 THEN x = y \/ x = <<-1, 0>> \/ y = <<1, 0>>
       ELSE x[1] * y[2] <= y[1] * x[2]

Warped == self.pc = "done" /\ result.err = "ok"

Nondecreasing(w) == \A i \in 1..(Len(w) - 1) : FloatLessEq(w[i], w[i + 1])

\* C16: every sample make_random_warping returns is nondecreasing along the
\* grid, its first value is start and its last value is stop.
C16_MonotoneWarping ==
    Warped => \A sample \in 1..call.n_samples :
                  /\ Nondecreasing(result.val.data_matrix[sample])
                  /\ result.val.data_matrix[sample][1] = call.start
                  /\ result.val.data_matrix[sample][call.n_features] = call.stop

\* C17: a sample whose centered tangent function has norm 0 comes out as
\* the identity warping: sin(norm) / norm counts as 1 and no value of the
\* sample is undefined.
C17_ZeroNormIsIdentity ==
    Warped => \A sample \in 1..call.n_samples :
                  self.v_norm[sample] = RInt(0)
                  => /\ \A i \in 1..call.n_features :
                            result.val.data_matrix[sample][i][2] # 0
                     /\ result.val.data_matrix[sample] = result.val.grid_points

\* ---- concurrent calls

\* No call is running.
Quiescent == \A t \in Threads : call.threads[t].pc = "idle"

\* The index holds the real pairwise distances of _fit_X.
FittedOnDistances(s) ==
    /\ s.estimator.fitted
    /\ s.estimator.src = "distances"
    /\ s.estimator.X.val = PairwiseMetric(s.fit_X.val, s.fit_X.val)

\* The flag says real distances and the index holds none, zeros, or the
\* distances of another training set.
Stale == self.fitted_with_distances = "True" /\ ~FittedOnDistances(self)

\* C18 (serialized calls): when the calls on one instance do not overlap,
\* between calls _fitted_with_distances is True only with the index fitted
\* on the real pairwise distances of the current _fit_X.
C18_SerializedNeverStale == (call.serialized /\ Quiescent) => ~Stale

\* C18 (interleaved calls): the stale states a fit reaches when its steps
\* interleave with those of a kneighbors(None) or of another fit.
StaleUnfitted == ~call.serialized /\ Quiescent /\ Stale /\ ~self.estimator.fitted
StaleZeros == ~call.serialized /\ Quiescent /\ Stale /\ self.estimator.src = "zeros"
StaleOtherSet == ~call.serialized /\ Quiescent /\ Stale /\ self.estimator.src = "distances"

\* The instance s is the instance e but for the index, now fitted on the
\* real pairwise distances of e's _fit_X with e's _fit_y, and perhaps the
\* flag.
Refitted(s, e) ==
    /\ s.estimator.fitted
    /\ s.estimator.src = "distances"
    /\ s.estimator.X.val = PairwiseMetric(e.fit_X.val, e.fit_X.val)
    /\ s.estimator.y.val = e.fit_y.val
    /\ s = [e EXCEPT !.estimator = s.estimator,
                     !.fitted_with_distances = s.fitted_with_distances]

\* The placeholder state: the flag False and the index fitted on the zeros.
Placeholder(e) ==
    e.fitted_with_distances = "False" /\ e.estimator.fitted /\ e.estimator.src = "zeros"

\* Where a kneighbors(None) that began in the state e stands (f: its frame).
RefitOnce(f, e) ==
    CASE f.pc \in {"252", "139", "141", "142"} -> self = e
      [] f.pc = "143" -> Refitted(self, e) /\ self.fitted_with_distances = "False"
      [] OTHER ->
           /\ IF self.fitted_with_distances = e.fitted_with_distances THEN self = e
              ELSE Refitted(self, e) /\ self.fitted_with_distances = "True"
           /\ (Placeholder(e) /\ ~f.metric_raises) => self.fitted_with_distances = "True"

\* C19: _refit_with_distances in a kneighbors(None) no other call overlaps:
\* with the flag True it leaves the instance as it is; with the flag False
\* it leaves the instance as it is until the index is fitted on the real
\* distances of _fit_X with _fit_y, and only then sets the flag, and a call
\* that fails before leaves the instance as it found it, so that from the
\* placeholder state a call, a repeated call and a retry all end in the
\* same state.
C19_RefitIdempotent ==
    call.serialized =>
        \A t \in Threads :
            call.threads[t].op = "kneighbors" => RefitOnce(call.threads[t], call.threads[t].entry)

C19_Witness ==
    /\ call.serialized
    /\ \E t \in Threads :
           /\ Stands(t, "kneighbors", "returned")
           /\ result[t].err = "ok"
           /\ Placeholder(call.threads[t].entry)
           /\ Refitted(self, call.threads[t].entry)
           /\ self.fitted_with_distances = "True"

\* ---- functional predict

\* The aggregation of the targets of the training samples in S for query
\* sample i: their mean, or with weights "distance" their average weighted
\* by the distances from query sample i.
Aggregation(i, S) ==
    IF self.weights = "uniform" THEN WeightedAverage(S, [j \in Training |-> RInt(1)])
    ELSE IF S \cap ZeroSet(i) # {}
         THEN WeightedAverage(S \cap ZeroSet(i), [j \in Training |-> RInt(1)])
         ELSE WeightedAverage(S, [j \in Training |-> Rat(1, QueryDistance(i, j))])

\* C20: a functional-response predict that returns, returns one function
\* per query sample, in the order of the query: at position i the outlier
\* response when query sample i has no neighbors, and else the aggregation
\* of the targets of query sample i's own neighbors with query sample i's
\* own distances.
C20_OnePredictionPerQuery ==
    (FunctionalPredictReturned /\ result.err = "ok") =>
        /\ Len(result.val) = Len(call.X.val)
        /\ \A i \in 1..Len(call.X.val) :
               \E S \in NeighborSets(i) :
                   IF S = {}
                   THEN /\ ~self.outlier_response.none
                        /\ result.val[i] = VInt(self.outlier_response.val)
                   ELSE result.val[i] = Aggregation(i, S)

\* Two query samples with the same two neighbors at different distances,
\* predicted differently.
C20_Witness ==
    /\ FunctionalPredictReturned
    /\ result.err = "ok"
    /\ self.weights = "distance"
    /\ Len(call.X.val) >= 2
    /\ \E i, k \in 1..Len(call.X.val) :
           /\ i < k
           /\ NeighborSets(i) = NeighborSets(k)
           /\ \A S \in NeighborSets(i) : Cardinality(S) >= 2
           /\ result.val[i] # result.val[k]
           /\ \E a \in Training : QueryDistance(i, a) # QueryDistance(k, a)

\* ---- euler_maruyama: the dispatch and the noise

\* The formatting matrix the probe at t = start stands for.
ProbedMatrix ==
    IF Len(ProbedShape) = 1 THEN Eye(self.dim_codomain, self.dim_noise)
    ELSE Full(<<self.dim_codomain, self.dim_noise>>, RInt(1))

\* The value of step n (from 0) computed with the formatting matrix F.
StepValue(F, n) ==
    LET t_n == self.times[n + 1]
        x_n == Slice(self.data_matrix, n)
    IN Elementwise("+",
           Elementwise("+", x_n,
               Elementwise("*", NDArray(<<>>, <<self.step_size>>), drift(self, t_n, x_n))),
           Elementwise("*",
               einsum(Elementwise("*", diffusion(self, t_n, x_n), F), Slice(self.noise, n)),
               NDArray(<<>>, <<Sqrt(self.step_size)>>)))

Stepping == self.pc = "step" \/ Finished

\* The noise of all n_grid_points - 1 steps: the numbers of the stream that
\* follow those of the initial values.
AllNoise ==
    LET shape == <<self.n_samples, call.n_grid_points - 1, self.dim_noise>>
    IN /\ self.noise.shape = shape
       /\ \A k \in 1..Size(shape) :
              self.noise.data[k]
                  = StreamAt(self.random_state.seed, self.random_state.pos - Size(shape) + k - 1)

\* From the first step on the formatting matrix is the one of the probe,
\* every value computed so far was computed with it, and the noise of
\* every step is there.
DispatchedOnce ==
    Stepping =>
        /\ self.formatting_matrix = ProbedMatrix
        /\ AllNoise
        /\ \A n \in 0..(self.n - 1) :
               Slice(self.data_matrix, n + 1) = StepValue(ProbedMatrix, n)

\* C21: the formatting matrix is chosen by the probe at t = start before the
\* first step, every one of the n_grid_points - 1 steps uses it, whatever
\* the diffusion returns later, no step changes it, and the noise of all
\* steps is drawn before the first step and no step draws any.
C21_DispatchedOnce ==
    /\ []DispatchedOnce
    /\ [][self.pc = "step" => /\ self'.formatting_matrix = self.formatting_matrix
                              /\ self'.noise = self.noise
                              /\ self'.random_state = self.random_state]_vars

\* A finished call whose diffusion returns a matrix after a scalar or a
\* vector at start, so that a matrix chosen anew would give other values.
C21_Witness ==
    /\ Finished
    /\ ~call.diffusion_later.none
    /\ Len(ProbedShape) = 1
    /\ Len(call.diffusion_later.val.shape) = 2
    /\ self.n = call.n_grid_points - 1
    /\ self.n >= 2
    /\ \E n \in 1..(self.n - 1) :
           StepValue(ProbedMatrix, n)
               # StepValue(Full(<<self.dim_codomain, self.dim_noise>>, RInt(1)), n)

\* ---- euler_maruyama: the initial values

\* The forms of initial_condition with the n_samples they go with: a scalar,
\* a vector or a generator of scalars or vectors with any n_samples (a
\* generator needs one), an array of one row per sample with n_samples
\* omitted or equal to its number of rows.
AllowedForm ==
    LET shape == call.initial_condition.array.shape
    IN IF call.initial_condition.callable THEN ~call.n_samples.none /\ Len(shape) <= 1
       ELSE \/ Len(shape) <= 1
            \/ Len(shape) = 2 /\ (call.n_samples.none \/ call.n_samples.val = shape[1])

\* The array [n_samples, dim_codomain] the form stands for: row i is the
\* initial value of sample i.
ExpectedInitialValues ==
    LET A == call.initial_condition.array
        N == IF call.n_samples.none THEN 1 ELSE call.n_samples.val
    IN IF call.initial_condition.callable
       THEN NDArray(<<N, IF A.shape = <<>> THEN 1 ELSE A.shape[1]>>,
                    standard_normal(call.random_state, <<N>> \o A.shape).data)
       ELSE CASE Len(A.shape) = 0 -> Full(<<N, 1>>, A.data[1])
              [] Len(A.shape) = 1 /\ call.n_samples.none -> NDArray(<<A.shape[1], 1>>, A.data)
              [] Len(A.shape) = 1 /\ ~call.n_samples.none ->
                     NDArray(<<N, A.shape[1]>>,
                             [k \in 1..(N * A.shape[1]) |-> A.data[((k - 1) % A.shape[1]) + 1]])
              [] OTHER -> A

\* C22: for each form of initial_condition, with n_samples given or omitted,
\* the initial values are resolved to the array [n_samples, dim_codomain]
\* whose row i is the initial value of sample i, n_samples and dim_codomain
\* are its two lengths, and the first grid point of trajectory i is row i;
\* an array [n_samples, d] with n_samples given has dim_codomain = d.
C22_InitialValuesResolved ==
    (AllowedForm /\ self.pc # "start") =>
        /\ self.initial_values = ExpectedInitialValues
        /\ <<self.n_samples, self.dim_codomain>> = ExpectedInitialValues.shape
        /\ Finished => Slice(result.val.data_matrix, 0) = ExpectedInitialValues

\* C22 without the arrays [n, d] that come with n_samples = n > 1 and d # n.
SquareOrSingle ==
    LET shape == call.initial_condition.array.shape
    IN (Len(shape) = 2 /\ ~call.n_samples.none) => (shape[1] = 1 \/ shape[2] = shape[1])

InitialValuesResolved == SquareOrSingle => C22_InitialValuesResolved

\* ---- euler_maruyama: the accepted diffusions

\* The diffusion returns the shape of the probe at every step.
SameShapeLater ==
    call.diffusion_later.none \/ call.diffusion_later.val.shape = call.diffusion.val.shape

\* The accepted shapes that numpy can carry through a step: a scalar, one
\* value, a vector when the noise has dim_codomain components, a matrix, and
\* a stack of one matrix or of one matrix per sample.
DiffusionFits ==
    /\ Len(ProbedShape) = 1 => ProbedShape[1] = 1 \/ self.dim_noise = self.dim_codomain
    /\ Len(ProbedShape) = 3 => ProbedShape[1] \in {1, self.n_samples}

\* The step that is due has a value, of shape [n_samples, dim_codomain].
StepHasValue ==
    LET value == next_value(self, self.times[self.n + 1], Slice(self.data_matrix, self.n))
    IN (self.pc = "step" /\ self.n < call.n_grid_points - 1)
           => value # Unset /\ value.shape = <<self.n_samples, self.dim_codomain>>

\* C26: once the probe at t = start was accepted, every one of the
\* n_grid_points - 1 steps of a diffusion that keeps returning that shape
\* has a value of shape [n_samples, dim_codomain], and the call does not end
\* with a ValueError; a vector of dim_codomain > 1 values with dim_noise
\* other than dim_codomain is among the accepted diffusions.
C26_AcceptedDiffusionCompletes ==
    (Probed /\ self.formatting_matrix # Unset /\ SameShapeLater)
        => StepHasValue /\ result.err # "ValueError"

\* C26 for the accepted shapes that fit.
AcceptedDiffusionCompletes == DiffusionFits => C26_AcceptedDiffusionCompletes

\* A vector of dim_codomain > 1 values is accepted with dim_noise other than
\* dim_codomain, and the first step is due.
VectorAccepted ==
    /\ self.pc = "step"
    /\ self.n = 0
    /\ call.n_grid_points > 1
    /\ ProbedShape = <<self.dim_codomain>>
    /\ self.dim_codomain > 1
    /\ self.dim_noise # self.dim_codomain

\* ---- the assertion of _refit_with_distances

\* What _refit_with_distances needs when the flag is False: a metric to
\* compute distances with and the estimator's own copies of a training set.
RefitHasTrainingSet ==
    self.fitted_with_distances = "False"
        => /\ self.metric # "precomputed"
           /\ self.fit_X.cell = "own"
           /\ self.fit_y.cell = "own"
           /\ refit_with_distances(self).err \notin {"AssertionError", "AttributeError"}

\* A fit that leaves the flag False has stored copies of its own X and y;
\* no other operation touches the copies or clears the flag.
CopiesOfLastFit ==
    IF call'.op = "fit"
    THEN self'.fitted_with_distances = "False"
             => /\ self'.fit_X = Own(call'.X.val)
                /\ self'.fit_y = Own(call'.y)
    ELSE /\ self'.fit_X = self.fit_X
         /\ self'.fit_y = self.fit_y
         /\ self'.fitted_with_distances = "False" => self.fitted_with_distances = "False"

\* C27: in every state reached by fit, query and predict calls, when
\* _fitted_with_distances is False the metric is not 'precomputed' and
\* _fit_X and _fit_y are the copies the most recent fit stored of its X and
\* y, so that the assertion of _refit_with_distances holds and the refit
\* has a training set.
C27_RefitAssertionHolds == []RefitHasTrainingSet /\ [][CopiesOfLastFit]_vars

\* The flag is False after a query with a query set that followed the fit,
\* and the refit that is due would fit the index on the distances.
C27_Witness ==
    /\ self.fitted_with_distances = "False"
    /\ call.op = "kneighbors"
    /\ ~call.X.none
    /\ result.err = "ok"
    /\ refit_with_distances(self).err = "ok"
    /\ refit_with_distances(self).self.estimator.src = "distances"

\* ---- queries with a query set

\* The operations that take a query set.
ExplicitOps == QueryOps \cup {"predict", "predict_proba"}

\* Every query and prediction of X by the instance s.
AnswersOf(s, X) ==
    <<OutcomesOf(kneighbors(s, Given(X), s.n_neighbors)),
      OutcomesOf(kneighbors_graph(s, Given(X), s.n_neighbors, "connectivity")),
      OutcomesOf(radius_neighbors(s, Given(X), s.radius)),
      OutcomesOf(radius_neighbors_graph(s, Given(X), s.radius, "connectivity")),
      IF s.kind = "classifier"
      THEN <<OutcomesOf(classifier_predict(s, X)), OutcomesOf(predict_proba(s, X))>>
      ELSE <<OutcomesOf(regressor_predict(s, X))>> >>

\* The index is fitted on the placeholder and the refit that is due works.
OnPlaceholder ==
    /\ self.metric # "precomputed"
    /\ self.estimator.fitted
    /\ self.fitted_with_distances = "False"
    /\ refit_with_distances(self).err = "ok"

\* The answers on the placeholder are those after the refit.
SameAnswerAfterRefit ==
    OnPlaceholder
        => \A X \in QuerySets : AnswersOf(self, X) = AnswersOf(refit_with_distances(self).self, X)

\* A query or prediction of a query set leaves the instance as it was.
QueryKeepsFittedState ==
    (/\ call'.op \in ExplicitOps
     /\ ~call'.X.none
     /\ self.metric # "precomputed"
     /\ self.estimator.fitted) => self' = self

\* C25: on a fitted model with a metric other than 'precomputed', a query or
\* a prediction with a query set X changes nothing of the fitted state (no
\* refit on the real distances), and returns the same whether the index
\* holds the placeholder or the real distances.
C25_ExplicitQueryIsPure == []SameAnswerAfterRefit /\ [][QueryKeepsFittedState]_vars

\* C25 while the targets the index holds are those of the stored copy.
ExplicitQueryIsPure ==
    /\ [](self.estimator.y.val = self.fit_y.val => SameAnswerAfterRefit)
    /\ [][QueryKeepsFittedState]_vars

\* A prediction of a query set was answered by the index on the placeholder.
AnsweredOnPlaceholder ==
    /\ OnPlaceholder
    /\ call.op = "predict"
    /\ ~call.X.none
    /\ result.err = "ok"
    /\ result.src = "zeros"

\* ---- the linear smoother: hat_matrix

\* hat_matrix returned on a fitted smoother.
HatMatrixReturned == call.op = "hat_matrix" /\ result.err = "ok"

\* The points the call stands for: those passed, the fitted ones for None.
PassedInput == IF call.input_points.none THEN self.input_points_.val ELSE call.input_points.val
PassedOutput == IF call.output_points.none THEN self.output_points_.val ELSE call.output_points.val

\* C24: on a fitted linear smoother hat_matrix(input_points, output_points)
\* returns the matrix of the points the caller passed, the fitted
\* input_points_ or output_points_ standing in only for an argument that is
\* None.
C24_HatMatrixOfPassedPoints ==
    HatMatrixReturned => result.val = hat_matrix_impl(PassedInput, PassedOutput)

\* What hat_matrix returns: the fitted matrix, whatever is passed.
HatMatrixOfFittedPoints ==
    HatMatrixReturned => result.val = self.hat_matrix_.val

\* hat_matrix was called with points other than the fitted ones.
OtherPointsPassed ==
    /\ HatMatrixReturned
    /\ ~call.input_points.none
    /\ ~call.output_points.none
    /\ Len(call.input_points.val[1]) # Len(self.input_points_.val[1])
    /\ Len(call.output_points.val[1]) # Len(self.output_points_.val[1])

\* ---- make_multimodal_samples: the grid

\* make_multimodal_samples returned, for a domain of two or more dimensions.
SamplesOnGrid ==
    /\ call.op = "make_multimodal_samples"
    /\ result.err = "ok"
    /\ call.dim_domain >= 2

\* The point of the returned grid_points at the grid index idx.
GridPoint(idx) == [m \in 1..call.dim_domain |-> result.val.grid_points[m][idx[m] + 1]]

\* The centre of mode k of sample i and channel j.
Centre(i, j, k) ==
    [m \in 1..call.dim_domain |-> At(result.val.location, <<i, j, k - 1, m - 1>>)]

\* The entry of data_matrix at <<i>> \o idx \o <<j>> holds the densities
\* at the point p.
EvaluatedAt(i, idx, j, p) ==
    At(result.val.modes, <<i>> \o idx \o <<j>>)
        = [k \in 1..call.n_modes |-> pdf(p, Centre(i, j, k))]

GridIndices == [1..call.dim_domain -> 0..(call.points_per_dim - 1)]

\* C23: with dim_domain >= 2, data_matrix[i, a_1, ..., a_d, j] is the sum
\* over the modes k of the density centred at location[i, j, k], taken at
\* the point (axis[a_1], ..., axis[a_d]) of the returned grid_points.
C23_GridOrderAgrees ==
    SamplesOnGrid
        => \A i \in 0..(call.n_samples - 1), j \in 0..(call.dim_codomain - 1),
              idx \in GridIndices :
               EvaluatedAt(i, idx, j, GridPoint(idx))

\* The point with its first two coordinates exchanged.
Exchanged(p) == [m \in DOMAIN p |-> IF m = 1 THEN p[2] ELSE IF m = 2 THEN p[1] ELSE p[m]]

\* What is stored: the densities at the point whose first two coordinates
\* are those of the grid index in exchanged order.
GridOrderExchanged ==
    SamplesOnGrid
        => \A i \in 0..(call.n_samples - 1), j \in 0..(call.dim_codomain - 1),
              idx \in GridIndices :
               EvaluatedAt(i, idx, j, Exchanged(GridPoint(idx)))

\* A sample on a grid of two dimensions with a mode whose centre has two
\* different coordinates.
OffDiagonalMode ==
    /\ SamplesOnGrid
    /\ \E i \in 0..(call.n_samples - 1), j \in 0..(call.dim_codomain - 1),
          k \in 1..call.n_modes : Centre(i, j, k)[1] # Centre(i, j, k)[2]
====
